---- MODULE Spec2Model ----
(***************************************************************************)
(* Serial console drivers of marmbrus/circuits.                            *)
(*                                                                         *)
(*   driver = "conn"    : SerialConnection  (air/src/test/serial_connection.py)      *)
(*   driver = "console" : SerialConsole     (roomsensor_util/serial_console.py)      *)
(*                                                                         *)
(* Each driver is a caller thread, a background reader thread and the      *)
(* serial transport (two control lines, a write side, a read side fed by   *)
(* the device).  Bytes are integers 0..255, text is a sequence of code     *)
(* points.  Time is abstract: a deadline test may come out either way,     *)
(* wait_for_idle counts its own 0.1 s sleeps.                              *)
(***************************************************************************)
EXTENDS Integers, Sequences, FiniteSets, TLC

VARIABLES
    driver,          \* which object runs: SerialConnection, SerialConsole, or send_line_and_capture
    scen,            \* which operations the test program of this run uses
    ser_open,        \* the pyserial port is open
    dtr, rts,        \* control lines: TRUE = asserted
    replies,         \* CPR replies the reader wrote for its current chunk
    \* ---- SerialConnection
    buf,             \* _buf
    buf_base_index,  \* _buf_base_index
    stop,            \* _stop / _stop_event
    lock,            \* holder of _lock / _buffer_lock: "free" or "reader" (a caller holds it within one step)
    rpc,             \* reader thread position
    orphans,         \* live reader threads that earlier open() calls started (SerialConsole)
    data,            \* reader's local chunk
    \* ---- SerialConsole
    buffer,          \* _buffer
    clean_chunks,    \* _clean_chunks
    ser_set,         \* self._ser is not None
    \* ---- caller thread
    cpc,             \* caller position
    line,            \* argument of send_command / write_line
    needle,          \* argument of assert_contains / wait_for_clean_after
    start_pos,       \* local start_pos / start of the running operation (-1 = None)
    mark,            \* the mark the test code holds (-1 = none yet)
    hay,             \* last snapshot taken by the running operation
    idle_t,          \* wait_for_idle: sleeps since the call, sleeps at last growth, current_len
    \* ---- observation (history) variables
    hist,            \* every byte (conn) / clean code point (console) ever appended
    evicted,         \* bytes deleted from the front of _buf so far
    opWrites,        \* write calls of the running operation, in order
    opLines,         \* control-line calls of the running operation, in order
    obs,             \* per-operation observations (see ObsInit)
    idle_end,        \* logical end when wait_for_idle last returned normally (-1: the last call raised, or none was made)
    cpr,             \* raw bytes read so far, CPR reply write calls made, and how many succeeded
    stale,           \* bytes that reached the port before it was opened are still in its receive queue
    reset_at,        \* length of SerialConsole's raw buffer when reset_normal last released the reset (-1: never)
    \* ---- provision.apply_config_file
    prov             \* the file being applied, the loop position, and the commands sent so far

vars == << driver, scen, prov, orphans, ser_open, dtr, rts, replies, buf, buf_base_index, stop, lock,
           rpc, data, buffer, clean_chunks, ser_set, cpc, line, needle,
           start_pos, mark, hay, idle_t, hist, evicted, opWrites, opLines, obs, cpr, idle_end, stale,
           reset_at >>

(***************************** bounds **************************************)
BufLimit == 2        \* buffer_limit_bytes, scaled down
MaxAppend == 4       \* total bytes the device delivers in one run
SilenceTicks == 2    \* wait_for_idle silence_s, in 0.1 s sleeps
TimeoutTicks == 3    \* wait_for_idle timeout_s, in 0.1 s sleeps
MaxOrphans == 1      \* readers of earlier sessions alive at once
MaxStream == 8       \* total raw bytes read in one run, CPR queries included
CapIdleTicks == 2    \* send_line_and_capture idle_threshold_s, in empty reads
CapMaxTicks == 4     \* send_line_and_capture max_wait_s, in empty reads

(**************************** byte values **********************************)
ESC == 27
BEL == 7
LF == 10
CR == 13
REPLACEMENT == 65533

CPR_QUERY == << 27, 91, 54, 110 >>            \* ESC [ 6 n
CPR_REPLY == << 27, 91, 49, 59, 49, 82 >>     \* ESC [ 1 ; 1 R
CRLF == << 13, 10 >>
BANNER == << 66 >>                            \* stands for "boot: Multicore bootloader"

(**************************** sequences ************************************)
Max(a, b) == IF a >= b THEN a ELSE b

Drop(s, n) == SubSeq(s, n + 1, Len(s))

IsPrefix(p, s) == Len(p) <= Len(s) /\ SubSeq(s, 1, Len(p)) = p

\* Python `needle in hay` on bytes or str
Contains(h, n) == \E i \in 0..(Len(h) - Len(n)) : SubSeq(h, i + 1, i + Len(n)) = n

\* Python s.find(n, start) # -1  (start >= 0)
FindFrom(h, n, start) ==
    \E i \in start..(Len(h) - Len(n)) : SubSeq(h, i + 1, i + Len(n)) = n

\* Python bytes.replace(old, b""): leftmost non-overlapping occurrences removed
RECURSIVE RemoveAll(_, _)
RemoveAll(s, old) ==
    IF Len(s) < Len(old) THEN s
    ELSE IF IsPrefix(old, s) THEN RemoveAll(Drop(s, Len(old)), old)
    ELSE << Head(s) >> \o RemoveAll(Tail(s), old)

\* Python slice s[rel:] (a negative rel counts from the end)
PySliceFrom(s, rel) ==
    IF rel >= 0 THEN Drop(s, IF rel > Len(s) THEN Len(s) ELSE rel)
    ELSE Drop(s, Max(0, Len(s) + rel))

(************************ decoding and filtering ***************************)
\* bytes.decode("utf-8", errors="replace") on bytes below 0xE0: ASCII, two-byte
\* sequences, and U+FFFD for every byte that starts no valid sequence.
RECURSIVE Decode(_)
Decode(b) ==
    IF b = << >> THEN << >>
    ELSE IF b[1] < 128 THEN << b[1] >> \o Decode(Tail(b))
    ELSE IF /\ b[1] >= 194 /\ b[1] <= 223
            /\ Len(b) >= 2 /\ b[2] >= 128 /\ b[2] <= 191
         THEN << (b[1] - 192) * 64 + (b[2] - 128) >> \o Decode(Drop(b, 2))
    ELSE << REPLACEMENT >> \o Decode(Tail(b))

\* End of the lazy match of  .*?(?:\x07|\x1B\\)  started at index j of t:
\* the index just past the terminator, 0 when there is no match.
RECURSIVE OscEnd(_, _)
OscEnd(t, j) ==
    IF j > Len(t) THEN 0
    ELSE IF t[j] = BEL THEN j + 1
    ELSE IF t[j] = ESC /\ j + 1 <= Len(t) /\ t[j + 1] = 92 THEN j + 2
    ELSE IF t[j] = LF THEN 0
    ELSE OscEnd(t, j + 1)

\* ANSI_OSC_RE.sub("", t)
RECURSIVE StripOsc(_)
StripOsc(t) ==
    IF t = << >> THEN << >>
    ELSE IF Len(t) >= 2 /\ t[1] = ESC /\ t[2] = 93 /\ OscEnd(t, 3) # 0
         THEN StripOsc(Drop(t, OscEnd(t, 3) - 1))
    ELSE << t[1] >> \o StripOsc(Tail(t))

RECURSIVE SkipClass(_, _, _, _)
SkipClass(t, j, lo, hi) ==
    IF j <= Len(t) /\ t[j] >= lo /\ t[j] <= hi THEN SkipClass(t, j + 1, lo, hi) ELSE j

\* End of the match of  \x1B\[[0-?]*[ -/]*[@-~]  at the head of t, 0 when none.
CsiEnd(t) ==
    IF Len(t) >= 2 /\ t[1] = ESC /\ t[2] = 91
    THEN LET k == SkipClass(t, SkipClass(t, 3, 48, 63), 32, 47)
         IN  IF k <= Len(t) /\ t[k] >= 64 /\ t[k] <= 126 THEN k + 1 ELSE 0
    ELSE 0

\* ANSI_CSI_RE.sub("", t)
RECURSIVE StripCsi(_)
StripCsi(t) ==
    IF t = << >> THEN << >>
    ELSE IF CsiEnd(t) # 0 THEN StripCsi(Drop(t, CsiEnd(t) - 1))
    ELSE << t[1] >> \o StripCsi(Tail(t))

\* serial_connection._sanitize
Sanitize(t) == StripCsi(StripOsc(t))

\* serial_console._clean_ansi
CleanAnsi(t) == StripCsi(t)

(***************************************************************************)
(*                         the device side                                 *)
(***************************************************************************)
\* one chunk larger than the buffer limit
BigChunk == [i \in 1..(BufLimit + 1) |-> 66]

\* Chunks around the cursor-position-report query: the query alone, between
\* other text, twice in one chunk, cut in two by the chunk boundary, and one
\* query inside another.
CprChunks ==
    { CPR_QUERY, << 97 >> \o CPR_QUERY \o << 10 >>, CPR_QUERY \o CPR_QUERY,
      SubSeq(CPR_QUERY, 1, 2), SubSeq(CPR_QUERY, 3, 4),
      SubSeq(CPR_QUERY, 1, 2) \o CPR_QUERY \o SubSeq(CPR_QUERY, 3, 4) }

\* What one read(4096) of SerialConnection may return.  A run that exercises
\* commands and marks sees echoes, fragments, a CSI sequence and an oversized
\* chunk; a run that exercises the terminal emulation sees CprChunks; a run that
\* sends commands to a shell that asks for the cursor position sees the query
\* and an echo; a run that exercises resets or idleness sees the banner and
\* other text.
ConnChunks ==
    IF scen = "cmd"
    THEN { << 97 >>, << 10 >>, << 97, 10 >>, << 27, 91, 109 >>, BigChunk }
    ELSE IF scen = "cpr"
    THEN CprChunks
    ELSE IF scen = "tx"
    THEN { CPR_QUERY, << 97, 10 >> }
    ELSE { BANNER, << 97 >> }

\* command lines the tests send
Lines == { << 97 >> }

\* substrings / patterns the tests wait for
Needles == { << 97, 10 >>, BANNER }

(***************************************************************************)
(*                          SerialConnection                               *)
(***************************************************************************)
LogicalEnd == buf_base_index + Len(buf)

\* no configuration file is being applied
ProvIdle == [file |-> << >>, ns |-> 0, key |-> 0, phase |-> "none", sent |-> << >>,
             failed |-> { }, unacked |-> { }]

\* echo: outcome of _wait_echo; polls: the running wait has searched at least once;
\* pulseEnd: logical end of the buffer when reset_run asserted RTS (-1 before);
\* late: the deadline of the running assert_* / wait_match has passed
ObsInit == [echo |-> "none", polls |-> 0, pulseEnd |-> -1, late |-> FALSE]

\* nothing read, no reply written
CprInit == [stream |-> << >>, calls |-> 0, ok |-> 0]

\* t: sleeps since the call; last: t at last_data_time; cur: current_len;
\* app: t when the reader last appended during the call (-1: it has not);
\* still: sleeps of the call during which the reader appended nothing;
\* end: logical end of the buffer when current_len was sampled
IdleInit == [t |-> 0, last |-> 0, cur |-> 0, app |-> -1, still |-> 0, end |-> 0]

\* the caller's locals are dead once an operation has returned
ClearLocals ==
    /\ line' = << >>
    /\ needle' = << >>
    /\ start_pos' = -1
    /\ hay' = << >>
    /\ idle_t' = IdleInit
    /\ opWrites' = << >>
    /\ opLines' = << >>
    /\ obs' = ObsInit

ReaderVars == << buf, buf_base_index, lock, rpc, data, replies, hist, evicted,
                 buffer, clean_chunks >>
LineVars == << dtr, rts >>
CallerLocals == << line, needle, start_pos, hay, idle_t, opWrites, opLines, obs >>

\* _snapshot_text
SnapshotText == Sanitize(Decode(buf))

\* variant: the mark is ignored and the whole buffer is searched
SnapshotFrom_WholeBuffer(p) == Sanitize(Decode(buf))

\* variant: the relative index is not clamped at 0
SnapshotFrom_NoClamp(p) ==
    LET rel == IF p = -1 THEN 0 ELSE p - buf_base_index
    IN  Sanitize(Decode(PySliceFrom(buf, rel)))

\* _snapshot_from(start_pos), start_pos = -1 for None
SnapshotFrom(p) ==
    LET rel == IF p = -1 THEN 0 ELSE Max(0, p - buf_base_index)
    IN  Sanitize(Decode(PySliceFrom(buf, rel)))

(* ------------------------- reader thread ------------------------------ *)
\* while not self._stop: data = self._ser.read(4096), a non-empty chunk
R_Read ==
    /\ driver = "conn" /\ rpc = "loop" /\ ~stop /\ ser_open
    /\ \E c \in ConnChunks :
          /\ Len(hist) + Len(RemoveAll(c, CPR_QUERY)) <= MaxAppend
          /\ Len(cpr.stream) + Len(c) <= MaxStream
          /\ data' = c
          /\ cpr' = [cpr EXCEPT !.stream = @ \o c]
    /\ rpc' = "got"
    /\ replies' = 0
    /\ UNCHANGED << driver, scen, prov, orphans, idle_end, reset_at, stale, ser_open, dtr, rts, buf, buf_base_index, stop, lock,
                    buffer, clean_chunks, ser_set, cpc, mark, hist,
                    evicted, CallerLocals >>

\* the loop ends: _stop seen, or read raised serial.SerialException
R_Exit ==
    /\ driver = "conn" /\ rpc = "loop"
    /\ \/ stop
       \/ ~stop
    /\ rpc' = "exited"
    /\ UNCHANGED << driver, scen, prov, orphans, cpr, idle_end, reset_at, stale, ser_open, dtr, rts, replies, buf, buf_base_index, stop,
                    lock, data, buffer, clean_chunks, ser_set, cpc, mark,
                    hist, evicted, CallerLocals >>

\* variant: the reply is written but the query stays in the chunk
R_Cpr_KeepsQuery ==
    /\ driver = "conn" /\ rpc = "got"
    /\ IF Contains(data, CPR_QUERY)
       THEN /\ \/ /\ ser_open
                  /\ replies' = replies + 1
                  /\ cpr' = [cpr EXCEPT !.calls = @ + 1, !.ok = @ + 1]
               \/ /\ replies' = replies
                  /\ cpr' = [cpr EXCEPT !.calls = @ + 1]
            /\ data' = data
       ELSE UNCHANGED << replies, data, cpr >>
    /\ rpc' = "lock"
    /\ UNCHANGED << driver, scen, prov, orphans, idle_end, reset_at, stale, ser_open, dtr, rts, buf, buf_base_index, stop, lock,
                    buffer, clean_chunks, ser_set, cpc, mark, hist,
                    evicted, CallerLocals >>

\* if b"\x1b[6n" in data: write the reply (errors swallowed), strip the query
R_Cpr ==
    /\ driver = "conn" /\ rpc = "got"
    /\ IF Contains(data, CPR_QUERY)
       THEN /\ \/ /\ ser_open
                  /\ replies' = replies + 1
                  /\ cpr' = [cpr EXCEPT !.calls = @ + 1, !.ok = @ + 1]
               \/ /\ replies' = replies
                  /\ cpr' = [cpr EXCEPT !.calls = @ + 1]
            /\ data' = RemoveAll(data, CPR_QUERY)
       ELSE UNCHANGED << replies, data, cpr >>
    /\ rpc' = "lock"
    /\ UNCHANGED << driver, scen, prov, orphans, idle_end, reset_at, stale, ser_open, dtr, rts, buf, buf_base_index, stop, lock,
                    buffer, clean_chunks, ser_set, cpc, mark, hist,
                    evicted, CallerLocals >>

\* with self._lock: self._buf.extend(data)
R_Extend ==
    /\ driver = "conn" /\ rpc = "lock" /\ lock = "free"
    /\ lock' = "reader"
    /\ buf' = buf \o data
    /\ hist' = hist \o data
    /\ idle_t' = IF cpc \in { "wi_check", "wi_sleep" }
                 THEN [idle_t EXCEPT !.app = idle_t.t]
                 ELSE idle_t
    /\ rpc' = "evict"
    /\ UNCHANGED << driver, scen, prov, orphans, cpr, idle_end, reset_at, stale, ser_open, dtr, rts, replies,
                    buf_base_index, stop, data, buffer, clean_chunks, ser_set, cpc,
                    mark, evicted, line, needle, start_pos, hay, opWrites, opLines,
                    obs >>

\* variant: the base index advances but the bytes are not deleted
R_Evict_NoTrim ==
    /\ driver = "conn" /\ rpc = "evict"
    /\ IF Len(buf) > BufLimit
       THEN buf_base_index' = buf_base_index + (Len(buf) - BufLimit)
       ELSE buf_base_index' = buf_base_index
    /\ buf' = buf
    /\ evicted' = evicted + (Len(buf) - Len(buf'))
    /\ lock' = "free"
    /\ rpc' = "loop"
    /\ UNCHANGED << driver, scen, prov, orphans, cpr, idle_end, reset_at, stale, ser_open, dtr, rts, replies, stop, data, buffer,
                    clean_chunks, ser_set, cpc, mark, hist, CallerLocals >>

\* variant: the base index advances by one per eviction, not by the dropped count
R_Evict_BaseByOne ==
    /\ driver = "conn" /\ rpc = "evict"
    /\ IF Len(buf) > BufLimit
       THEN /\ buf' = Drop(buf, Len(buf) - BufLimit)
            /\ buf_base_index' = buf_base_index + 1
       ELSE UNCHANGED << buf, buf_base_index >>
    /\ evicted' = evicted + (Len(buf) - Len(buf'))
    /\ lock' = "free"
    /\ rpc' = "loop"
    /\ UNCHANGED << driver, scen, prov, orphans, cpr, idle_end, reset_at, stale, ser_open, dtr, rts, replies, stop, data, buffer,
                    clean_chunks, ser_set, cpc, mark, hist, CallerLocals >>

\* variant: the oldest bytes are dropped but the base index stays
R_Evict_KeepsBase ==
    /\ driver = "conn" /\ rpc = "evict"
    /\ IF Len(buf) > BufLimit
       THEN buf' = Drop(buf, Len(buf) - BufLimit)
       ELSE buf' = buf
    /\ buf_base_index' = buf_base_index
    /\ evicted' = evicted + (Len(buf) - Len(buf'))
    /\ lock' = "free"
    /\ rpc' = "loop"
    /\ UNCHANGED << driver, scen, prov, orphans, cpr, idle_end, reset_at, stale, ser_open, dtr, rts, replies, stop, data, buffer,
                    clean_chunks, ser_set, cpc, mark, hist, CallerLocals >>

\* if len(self._buf) > self._buf_limit: drop the oldest; then the lock is released
R_Evict ==
    /\ driver = "conn" /\ rpc = "evict"
    /\ IF Len(buf) > BufLimit
       THEN LET drop == Len(buf) - BufLimit
            IN  /\ buf' = Drop(buf, drop)
                /\ buf_base_index' = buf_base_index + drop
       ELSE UNCHANGED << buf, buf_base_index >>
    /\ evicted' = evicted + (Len(buf) - Len(buf'))
    /\ lock' = "free"
    /\ rpc' = "loop"
    /\ UNCHANGED << driver, scen, prov, orphans, cpr, idle_end, reset_at, stale, ser_open, dtr, rts, replies, stop, data, buffer,
                    clean_chunks, ser_set, cpc, mark, hist, CallerLocals >>

(* ------------------------- caller thread ------------------------------ *)
\* what the caller leaves alone while it runs a SerialConnection operation
ConnFrame == << driver, scen, prov, orphans, cpr, idle_end, reset_at, stale, ser_open, stop, ser_set, ReaderVars >>

(* send_command(line) *)
CallSendCommand ==
    /\ driver = "conn" /\ cpc = "idle" /\ scen \in { "cmd", "tx" }
    /\ \E l \in Lines : line' = l
    /\ obs' = ObsInit
    /\ cpc' = "sc_mark"
    /\ UNCHANGED << ConnFrame, LineVars, needle, start_pos, mark, hay,
                    idle_t, opWrites, opLines >>

\* variant: send_command empties the buffer when it takes its mark
SC_Mark_ClearsBuffer ==
    /\ driver = "conn" /\ cpc = "sc_mark" /\ lock = "free"
    /\ start_pos' = buf_base_index + Len(buf)
    /\ buf' = << >>
    /\ buf_base_index' = buf_base_index + Len(buf)
    /\ cpc' = "sc_write"
    /\ UNCHANGED << driver, scen, prov, orphans, cpr, idle_end, reset_at, stale, ser_open, stop, ser_set,
                    lock, rpc, data, replies, hist, evicted, buffer, clean_chunks,
                    LineVars, line, needle, mark, hay, idle_t,
                    opWrites, opLines, obs >>

\* with self._lock: start_pos = self._buf_base_index + len(self._buf)
SC_Mark ==
    /\ driver = "conn" /\ cpc = "sc_mark" /\ lock = "free"
    /\ start_pos' = buf_base_index + Len(buf)
    /\ cpc' = "sc_write"
    /\ UNCHANGED << ConnFrame, LineVars, line, needle, mark, hay, idle_t,
                    opWrites, opLines, obs >>

\* variant: a failed write is not swallowed
SC_Write_Propagates ==
    /\ driver = "conn" /\ cpc = "sc_write"
    /\ \/ /\ ser_open /\ opWrites' = Append(opWrites, line \o CRLF)
          /\ cpc' = "sc_flush"
       \/ /\ opWrites' = opWrites
          /\ cpc' = "sc_raise"
    /\ UNCHANGED << ConnFrame, LineVars, line, needle, start_pos, mark, hay,
                    idle_t, opLines, obs >>

\* self._ser.write((line + "\r\n").encode("utf-8")): the bytes are handed to
\* the port, or the call raises, which skips the flush and is swallowed
SC_Write ==
    /\ driver = "conn" /\ cpc = "sc_write"
    /\ \/ /\ ser_open /\ opWrites' = Append(opWrites, line \o CRLF)
          /\ cpc' = "sc_flush"
       \/ /\ opWrites' = opWrites
          /\ cpc' = "sc_echo"
    /\ UNCHANGED << ConnFrame, LineVars, line, needle, start_pos, mark, hay,
                    idle_t, opLines, obs >>

\* self._ser.flush() returns once the bytes have left the port (or raises, which
\* is swallowed): until then the command is being written
SC_Flush ==
    /\ driver = "conn" /\ cpc = "sc_flush"
    /\ cpc' = "sc_echo"
    /\ UNCHANGED << ConnFrame, LineVars, line, needle, start_pos, mark, hay,
                    idle_t, opWrites, opLines, obs >>

\* variant: the echo is searched in the chunk read last, not in the buffer
SC_WaitEcho_LastChunk ==
    /\ driver = "conn" /\ cpc = "sc_echo"
    /\ \/ /\ obs.polls > 0
          /\ obs' = [obs EXCEPT !.echo = "timeout"]
          /\ cpc' = "sc_ret"
          /\ hay' = hay
       \/ /\ lock = "free"
          /\ hay' = SnapshotText
          /\ IF Contains(Sanitize(Decode(data)), line \o << LF >>)
             THEN /\ obs' = [obs EXCEPT !.echo = "seen", !.polls = 1]
                  /\ cpc' = "sc_ret"
             ELSE /\ obs' = [obs EXCEPT !.polls = 1]
                  /\ cpc' = "sc_echo"
    /\ UNCHANGED << ConnFrame, LineVars, line, needle, start_pos, mark,
                    idle_t, opWrites, opLines >>

\* _wait_echo(line): needle = line + "\n"; each pass of the loop either finds the
\* deadline passed (not on the first pass: timeout_s is 2.0) or searches _snapshot_text()
SC_WaitEcho ==
    /\ driver = "conn" /\ cpc = "sc_echo"
    /\ \/ /\ obs.polls > 0
          /\ obs' = [obs EXCEPT !.echo = "timeout"]
          /\ cpc' = "sc_ret"
          /\ hay' = hay
       \/ /\ lock = "free"
          /\ hay' = SnapshotText
          /\ IF Contains(SnapshotText, line \o << LF >>)
             THEN /\ obs' = [obs EXCEPT !.echo = "seen", !.polls = 1]
                  /\ cpc' = "sc_ret"
             ELSE /\ obs' = [obs EXCEPT !.polls = 1]
                  /\ cpc' = "sc_echo"
    /\ UNCHANGED << ConnFrame, LineVars, line, needle, start_pos, mark,
                    idle_t, opWrites, opLines >>

\* return start_pos
SC_Return ==
    /\ driver = "conn" /\ cpc = "sc_ret"
    /\ mark' = start_pos
    /\ cpc' = "idle"
    /\ ClearLocals
    /\ UNCHANGED << ConnFrame, LineVars >>

(* reset_run() *)
CallResetRun ==
    /\ driver = "conn" /\ cpc = "idle" /\ scen = "reset"
    /\ obs' = ObsInit
    /\ cpc' = "rr_mark"
    /\ UNCHANGED << ConnFrame, LineVars, line, needle, start_pos, mark, hay,
                    idle_t, opWrites, opLines >>

\* with self._lock: start_pos = self._buf_base_index + len(self._buf)
RR_Mark ==
    /\ driver = "conn" /\ cpc = "rr_mark" /\ lock = "free"
    /\ start_pos' = buf_base_index + Len(buf)
    /\ cpc' = "rr_dtr"
    /\ UNCHANGED << ConnFrame, LineVars, line, needle, mark, hay, idle_t,
                    opWrites, opLines, obs >>

\* One control-line call of the try block: it sets the line, or raises and the
\* rest of the block is skipped (except Exception: pass).
RR_Dtr ==
    /\ driver = "conn" /\ cpc = "rr_dtr"
    /\ \/ /\ ser_open
          /\ dtr' = FALSE
          /\ opLines' = Append(opLines, << "DTR", FALSE, TRUE >>)
          /\ cpc' = "rr_rts_on"
       \/ /\ dtr' = dtr
          /\ opLines' = Append(opLines, << "DTR", FALSE, FALSE >>)
          /\ cpc' = "rr_ret"
    /\ UNCHANGED << ConnFrame, rts, line, needle, start_pos, mark, hay,
                    idle_t, opWrites, obs >>

RR_RtsOn ==
    /\ driver = "conn" /\ cpc = "rr_rts_on"
    /\ \/ /\ ser_open
          /\ rts' = TRUE
          /\ opLines' = Append(opLines, << "RTS", TRUE, TRUE >>)
          /\ obs' = [obs EXCEPT !.pulseEnd = Len(hist)]
          /\ cpc' = "rr_rts_off"
       \/ /\ rts' = rts
          /\ opLines' = Append(opLines, << "RTS", TRUE, FALSE >>)
          /\ obs' = obs
          /\ cpc' = "rr_ret"
    /\ UNCHANGED << ConnFrame, dtr, line, needle, start_pos, mark, hay,
                    idle_t, opWrites >>

\* variant: the last call of the pulse returns without releasing the line
RR_RtsOff_KeepsAsserted ==
    /\ driver = "conn" /\ cpc = "rr_rts_off"
    /\ \/ /\ ser_open
          /\ rts' = rts
          /\ opLines' = Append(opLines, << "RTS", FALSE, TRUE >>)
       \/ /\ rts' = rts
          /\ opLines' = Append(opLines, << "RTS", FALSE, FALSE >>)
    /\ cpc' = "rr_ret"
    /\ UNCHANGED << ConnFrame, dtr, line, needle, start_pos, mark, hay,
                    idle_t, opWrites, obs >>

RR_RtsOff ==
    /\ driver = "conn" /\ cpc = "rr_rts_off"
    /\ \/ /\ ser_open
          /\ rts' = FALSE
          /\ opLines' = Append(opLines, << "RTS", FALSE, TRUE >>)
       \/ /\ rts' = rts
          /\ opLines' = Append(opLines, << "RTS", FALSE, FALSE >>)
    /\ cpc' = "rr_ret"
    /\ UNCHANGED << ConnFrame, dtr, line, needle, start_pos, mark, hay,
                    idle_t, opWrites, obs >>

\* variant: the mark is read when the call returns, after the pulse
RR_Return_LateMark ==
    /\ driver = "conn" /\ cpc = "rr_ret" /\ lock = "free"
    /\ mark' = buf_base_index + Len(buf)
    /\ cpc' = "idle"
    /\ ClearLocals
    /\ UNCHANGED << ConnFrame, LineVars >>

\* time.sleep(wait_after_s); return start_pos
RR_Return ==
    /\ driver = "conn" /\ cpc = "rr_ret"
    /\ mark' = start_pos
    /\ cpc' = "idle"
    /\ ClearLocals
    /\ UNCHANGED << ConnFrame, LineVars >>

(* assert_contains / assert_matches / wait_match (needle, start_pos=p) *)
CallAssert ==
    /\ driver = "conn" /\ cpc = "idle"
    /\ \E n \in Needles : needle' = n
    /\ \E p \in { -1, mark } : start_pos' = p
    /\ \E l \in BOOLEAN : obs' = [ObsInit EXCEPT !.late = l]
    /\ cpc' = "ac_poll"
    /\ UNCHANGED << ConnFrame, LineVars, line, mark, hay, idle_t,
                    opWrites, opLines >>

\* hay = self._snapshot_from(start_pos); if needle in hay: return
AC_Poll ==
    /\ driver = "conn" /\ cpc = "ac_poll" /\ lock = "free"
    /\ hay' = SnapshotFrom(start_pos)
    /\ obs' = [obs EXCEPT !.polls = 1]
    /\ cpc' = IF Contains(SnapshotFrom(start_pos), needle) THEN "ac_ret" ELSE "ac_deadline"
    /\ UNCHANGED << ConnFrame, LineVars, line, needle, start_pos, mark,
                    idle_t, opWrites, opLines >>

\* variant: a poll that does not match raises without a look at the clock
AC_Deadline_RaisesAtOnce ==
    /\ driver = "conn" /\ cpc = "ac_deadline"
    /\ cpc' = "ac_raise"
    /\ UNCHANGED << ConnFrame, LineVars, line, needle, start_pos, mark, hay,
                    idle_t, opWrites, opLines, obs >>

\* variant: the failure is raised without the captured text
AC_Deadline_DropsHay ==
    /\ driver = "conn" /\ cpc = "ac_deadline"
    /\ \E l \in BOOLEAN :
          /\ obs.late => l
          /\ obs' = [obs EXCEPT !.late = l]
          /\ cpc' = IF l THEN "ac_raise" ELSE "ac_poll"
          /\ hay' = IF l THEN << >> ELSE hay
    /\ UNCHANGED << ConnFrame, LineVars, line, needle, start_pos, mark,
                    idle_t, opWrites, opLines >>

\* if time.time() >= deadline: raise AssertionError(... hay ...); else sleep(poll_s)
\* (the clock only moves forward: once the deadline has passed it stays passed)
AC_Deadline ==
    /\ driver = "conn" /\ cpc = "ac_deadline"
    /\ \E l \in BOOLEAN :
          /\ obs.late => l
          /\ obs' = [obs EXCEPT !.late = l]
          /\ cpc' = IF l THEN "ac_raise" ELSE "ac_poll"
    /\ UNCHANGED << ConnFrame, LineVars, line, needle, start_pos, mark, hay,
                    idle_t, opWrites, opLines >>

\* the call returns, or raises AssertionError
AC_Return ==
    /\ driver = "conn" /\ cpc \in { "ac_ret", "ac_raise" }
    /\ cpc' = "idle"
    /\ ClearLocals
    /\ UNCHANGED << ConnFrame, LineVars, mark >>

(* get_text(start_pos=p) *)
GetText ==
    /\ driver = "conn" /\ cpc = "idle" /\ scen = "cmd" /\ lock = "free"
    /\ \E p \in { -1, mark } :
          /\ start_pos' = p
          /\ hay' = SnapshotFrom(p)
    /\ obs' = [ObsInit EXCEPT !.polls = 1]
    /\ cpc' = "gt_ret"
    /\ UNCHANGED << ConnFrame, LineVars, line, needle, mark, idle_t,
                    opWrites, opLines >>

GT_Return ==
    /\ driver = "conn" /\ cpc = "gt_ret"
    /\ cpc' = "idle"
    /\ ClearLocals
    /\ UNCHANGED << ConnFrame, LineVars, mark >>

(* wait_for_idle(silence_s, timeout_s) *)
CallWaitForIdle ==
    /\ driver = "conn" /\ cpc = "idle" /\ scen = "idle"
    /\ idle_t' = IdleInit
    /\ cpc' = "wi_check"
    /\ UNCHANGED << ConnFrame, LineVars, line, needle, start_pos, mark, hay,
                    opWrites, opLines, obs >>

\* variant: the loop does not sample the length before it sleeps
WI_Check_NoSample ==
    /\ driver = "conn" /\ cpc = "wi_check"
    /\ cpc' = IF idle_t.t >= TimeoutTicks THEN "wi_raise" ELSE "wi_sleep"
    /\ idle_t' = idle_t
    /\ UNCHANGED << ConnFrame, LineVars, line, needle, start_pos, mark, hay,
                    opWrites, opLines, obs >>

\* while time.time() < deadline: current_len = len(self._buf)   (no lock taken)
WI_Check ==
    /\ driver = "conn" /\ cpc = "wi_check"
    /\ IF idle_t.t >= TimeoutTicks
       THEN /\ cpc' = "wi_raise"
            /\ idle_t' = idle_t
       ELSE /\ cpc' = "wi_sleep"
            /\ idle_t' = [idle_t EXCEPT !.cur = Len(buf), !.end = LogicalEnd]
    /\ UNCHANGED << ConnFrame, LineVars, line, needle, start_pos, mark, hay,
                    opWrites, opLines, obs >>

\* time.sleep(0.1); if len(self._buf) > current_len: last_data_time = now;
\* if now - last_data_time > silence_s: return
WI_Sleep ==
    /\ driver = "conn" /\ cpc = "wi_sleep"
    /\ LET now == idle_t.t + 1
           last == IF Len(buf) > idle_t.cur THEN now ELSE idle_t.last
           still == IF idle_t.app = idle_t.t THEN idle_t.still ELSE idle_t.still + 1
       IN  /\ idle_t' = [idle_t EXCEPT !.t = now, !.last = last, !.still = still]
           /\ cpc' = IF now - last > SilenceTicks THEN "wi_ret" ELSE "wi_check"
    /\ UNCHANGED << ConnFrame, LineVars, line, needle, start_pos, mark, hay,
                    opWrites, opLines, obs >>

\* return, or raise RuntimeError("Console did not become idle")
WI_Return ==
    /\ driver = "conn" /\ cpc \in { "wi_ret", "wi_raise" }
    /\ cpc' = "idle"
    /\ idle_end' = IF cpc = "wi_ret" THEN Len(hist) ELSE -1
    /\ ClearLocals
    /\ UNCHANGED << driver, scen, prov, orphans, cpr, stale, reset_at, ser_open, stop, ser_set, ReaderVars,
                    LineVars, mark >>

(* close() *)
CallClose ==
    /\ driver = "conn" /\ cpc = "idle" /\ scen = "reset"
    /\ stop' = TRUE
    /\ cpc' = "cl_join"
    /\ UNCHANGED << driver, scen, prov, orphans, cpr, idle_end, reset_at, stale, ser_open, ser_set, ReaderVars, LineVars, mark,
                    CallerLocals >>

\* self._reader.join(timeout=0.5) ends: the reader has exited, or 0.5 s passed;
\* then self._ser.close()
CL_Join ==
    /\ driver = "conn" /\ cpc = "cl_join"
    /\ \/ rpc = "exited"
       \/ rpc # "exited"
    /\ ser_open' = FALSE
    /\ cpc' = "cl_ret"
    /\ UNCHANGED << driver, scen, prov, orphans, cpr, idle_end, reset_at, stale, stop, ser_set, ReaderVars, LineVars, mark,
                    CallerLocals >>

CL_Return ==
    /\ driver = "conn" /\ cpc = "cl_ret"
    /\ cpc' = "idle"
    /\ ClearLocals
    /\ UNCHANGED << ConnFrame, LineVars, mark >>

(***************************************************************************)
(*                            SerialConsole                                *)
(***************************************************************************)
(* The texts of provision.apply_config_file, scaled down: a namespace and a key
   are one code point each, and one code point stands for the fixed words of a
   command or of an acknowledgement. *)
\* f"nvs_namespace {namespace}"
NsCommand(n) == << 110 >> \o n
\* f"nvs_set {key} {nvs_type} -v {cmd_value}"
SetCommand(k) == << 115 >> \o k
\* f"Namespace set to '{namespace}'"
NsAck(n) == << 78 >> \o n
\* f"Value stored under key '{key}'"
KeyAck(k) == << 86 >> \o k

\* the configuration files: the namespaces of the top-level object in order,
\* each with its keys in order, or with a value that is not an object
ProvFiles ==
    { << [name |-> << 97 >>, obj |-> TRUE, keys |-> << << 107 >>, << 108 >> >>],
         [name |-> << 98 >>, obj |-> TRUE, keys |-> << << 107 >> >>] >>,
      << [name |-> << 97 >>, obj |-> FALSE, keys |-> << >>],
         [name |-> << 98 >>, obj |-> TRUE, keys |-> << << 107 >> >>] >>,
      << [name |-> << 97 >>, obj |-> TRUE, keys |-> << >>],
         [name |-> << 98 >>, obj |-> TRUE, keys |-> << << 107 >> >>] >> }

\* what the device prints while it is provisioned: acknowledgements, in any
\* order and at any time, and other text
ProvChunks ==
    { NsAck(<< 97 >>), NsAck(<< 98 >>), KeyAck(<< 107 >>), KeyAck(<< 108 >>), << 120 >> }

\* what one read(512) of SerialConsole may return
ConsoleChunks ==
    IF scen = "cmd"
    THEN { << 97 >>, << 98 >>, << 27, 91, 109 >>, << 27, 91, 109, 97 >>,
           << 27, 93, 7 >> }
    ELSE IF scen = "prov"
    THEN ProvChunks
    ELSE { << 97 >> }

\* what the receive queue of the port held when it was opened: the driver keeps
\* what arrived earlier, and a read returns the oldest bytes first
StaleChunk == << 115 >>

\* texts the console tests wait for
CleanNeedles == { << 97 >>, << 97, 98 >> }

\* "".join(self._clean_chunks)
RECURSIVE Join(_)
Join(chunks) == IF chunks = << >> THEN << >> ELSE Head(chunks) \o Join(Tail(chunks))

\* get_clean_text
GetCleanText == Join(clean_chunks)

ConsoleBufVars == << buf, buf_base_index, lock, replies, evicted, buffer, clean_chunks,
                     hist, data, rpc >>
ConsoleFrame == << driver, scen, prov, orphans, cpr, idle_end, reset_at, stale, ConsoleBufVars >>

(* ------------------------- reader thread ------------------------------ *)
\* while not self._stop_event.is_set(): data = self._ser.read(512), non-empty
K_Read ==
    /\ driver = "console" /\ rpc = "loop" /\ ~stop /\ ser_set /\ ser_open
    /\ \E c \in (IF stale THEN { StaleChunk } ELSE ConsoleChunks) :
          /\ Len(buffer) + Len(c) <= MaxAppend
          /\ data' = c
    /\ stale' = FALSE
    /\ rpc' = "got"
    /\ UNCHANGED << driver, scen, prov, orphans, cpr, idle_end, reset_at, ser_open, dtr, rts, replies, buf, buf_base_index,
                    stop, lock, buffer, clean_chunks, ser_set, cpc, mark, hist,
                    evicted, CallerLocals >>

\* variant: the loop ends only on a read error of an open port; it tests the
\* stop event never, and a port that is closed or gone does not end it
K_Exit_OnlyOnError ==
    /\ driver = "console" /\ rpc = "loop"
    /\ ~stop /\ ser_set /\ ser_open
    /\ rpc' = "exited"
    /\ UNCHANGED << driver, scen, prov, orphans, cpr, idle_end, reset_at, stale, ser_open, dtr, rts, replies, buf, buf_base_index,
                    stop, lock, data, buffer, clean_chunks, ser_set, cpc, mark,
                    hist, evicted, CallerLocals >>

\* the loop ends: the stop event is set, or the read raised (both except
\* branches break; a read on a closed or dropped port raises)
K_Exit ==
    /\ driver = "console" /\ rpc = "loop"
    /\ \/ stop
       \/ ~stop
    /\ rpc' = "exited"
    /\ UNCHANGED << driver, scen, prov, orphans, cpr, idle_end, reset_at, stale, ser_open, dtr, rts, replies, buf, buf_base_index,
                    stop, lock, data, buffer, clean_chunks, ser_set, cpc, mark,
                    hist, evicted, CallerLocals >>

\* with self._buffer_lock: self._buffer.extend(data)
K_Extend ==
    /\ driver = "console" /\ rpc = "got" /\ lock = "free"
    /\ buffer' = buffer \o data
    /\ rpc' = "raw"
    /\ UNCHANGED << driver, scen, prov, orphans, cpr, idle_end, reset_at, stale, ser_open, dtr, rts, replies, buf, buf_base_index,
                    stop, lock, data, clean_chunks, ser_set, cpc, mark, hist,
                    evicted, CallerLocals >>

\* text = _clean_ansi(data.decode("utf-8", errors="replace"));
\* if text: with self._buffer_lock: self._clean_chunks.append(text)
K_Clean ==
    /\ driver = "console" /\ rpc = "raw" /\ lock = "free"
    /\ LET text == CleanAnsi(Decode(data))
       IN  IF text # << >>
           THEN /\ clean_chunks' = Append(clean_chunks, text)
                /\ hist' = hist \o text
           ELSE UNCHANGED << clean_chunks, hist >>
    /\ rpc' = "loop"
    /\ UNCHANGED << driver, scen, prov, orphans, cpr, idle_end, reset_at, stale, ser_open, dtr, rts, replies, buf, buf_base_index,
                    stop, lock, data, buffer, ser_set, cpc, mark, evicted,
                    CallerLocals >>

\* A reader that an earlier open() started and that is still alive runs the same
\* loop on self._ser, which is now the port of the current session; one
\* iteration of it (read, extend, clean) is taken as one step.
K_OrphanStep ==
    /\ driver = "console" /\ orphans > 0 /\ ~stop /\ ser_set /\ ser_open
    /\ lock = "free"
    /\ \E c \in ConsoleChunks :
          /\ Len(buffer) + Len(c) <= MaxAppend
          /\ buffer' = buffer \o c
          /\ LET text == CleanAnsi(Decode(c))
             IN  IF text # << >>
                 THEN /\ clean_chunks' = Append(clean_chunks, text)
                      /\ hist' = hist \o text
                 ELSE UNCHANGED << clean_chunks, hist >>
    /\ UNCHANGED << driver, scen, prov, orphans, cpr, idle_end, reset_at, stale, ser_open, dtr, rts, replies, buf,
                    buf_base_index, stop, lock, rpc, data, ser_set, cpc, mark,
                    evicted, CallerLocals >>

\* such a reader ends: it saw the stop event, or its read raised
K_OrphanExit ==
    /\ driver = "console" /\ orphans > 0
    /\ orphans' = orphans - 1
    /\ UNCHANGED << driver, scen, prov, cpr, idle_end, reset_at, stale, ser_open, dtr, rts, replies, buf, buf_base_index,
                    stop, lock, rpc, data, buffer, clean_chunks, ser_set, cpc, mark,
                    hist, evicted, CallerLocals >>

(* ------------------------- caller thread ------------------------------ *)
(* open() *)
CallOpen ==
    /\ driver = "console" /\ cpc = "idle"
    /\ ~ser_set \/ scen = "reset"
    /\ rpc \in { "none", "exited" } \/ orphans < MaxOrphans
    /\ cpc' = "op_serial"
    /\ opLines' = << >>
    /\ UNCHANGED << ConsoleFrame, ser_open, ser_set, stop, LineVars, mark, line,
                    needle, start_pos, hay, idle_t, opWrites, obs >>

\* self._ser = serial.Serial(...): the port opens with the control lines as the
\* platform sets them, or the constructor raises and _ser stays None
OP_Serial ==
    /\ driver = "console" /\ cpc = "op_serial"
    /\ \/ /\ ser_set' = TRUE /\ ser_open' = TRUE
          /\ dtr' \in BOOLEAN /\ rts' \in BOOLEAN
          /\ cpc' = "op_dtr"
       \/ /\ UNCHANGED << ser_set, ser_open, dtr, rts >>
          /\ cpc' = "k_raise"
    /\ UNCHANGED << ConsoleFrame, stop, mark, CallerLocals >>

\* self._set_dtr(False); self._set_rts(False): an error propagates out of open()
OP_Dtr ==
    /\ driver = "console" /\ cpc = "op_dtr"
    /\ \/ /\ dtr' = FALSE
          /\ opLines' = Append(opLines, << "DTR", FALSE, TRUE >>)
          /\ cpc' = "op_rts"
       \/ /\ dtr' = dtr
          /\ opLines' = Append(opLines, << "DTR", FALSE, FALSE >>)
          /\ cpc' = "k_raise"
    /\ UNCHANGED << ConsoleFrame, ser_open, ser_set, stop, rts, mark, line, needle,
                    start_pos, hay, idle_t, opWrites, obs >>

OP_Rts ==
    /\ driver = "console" /\ cpc = "op_rts"
    /\ \/ /\ rts' = FALSE
          /\ opLines' = Append(opLines, << "RTS", FALSE, TRUE >>)
          /\ cpc' = "op_start"
       \/ /\ rts' = rts
          /\ opLines' = Append(opLines, << "RTS", FALSE, FALSE >>)
          /\ cpc' = "k_raise"
    /\ UNCHANGED << ConsoleFrame, ser_open, ser_set, stop, dtr, mark, line, needle,
                    start_pos, hay, idle_t, opWrites, obs >>

\* self._reader_thread = threading.Thread(target=self._reader_loop); start()
OP_Start ==
    /\ driver = "console" /\ cpc = "op_start"
    /\ orphans' = IF rpc \in { "none", "exited" } THEN orphans ELSE orphans + 1
    /\ rpc' = "loop"
    /\ cpc' = "k_ret"
    /\ UNCHANGED << driver, scen, prov, cpr, idle_end, reset_at, stale, buf, buf_base_index, lock, replies, evicted, buffer,
                    clean_chunks, hist, data, ser_open, ser_set, stop, LineVars,
                    mark, CallerLocals >>

\* an operation of SerialConsole returns (k_ret) or raises (k_raise)
K_Return ==
    /\ driver = "console" /\ cpc \in { "k_ret", "k_raise" }
    /\ cpc' = "idle"
    /\ ClearLocals
    /\ UNCHANGED << ConsoleFrame, ser_open, ser_set, stop, LineVars, mark >>

\* One control-line call of SerialConsole (_set_dtr / _set_rts): the line is
\* set, or the call raises and the error leaves the running operation.
\* reset_at notes where the raw buffer ended when reset_normal released RTS, in
\* the runs that go on to wait for the boot log.
SetLine(from, sig, val, next) ==
    /\ driver = "console" /\ cpc = from
    /\ \/ /\ IF sig = "DTR" THEN dtr' = val /\ rts' = rts ELSE rts' = val /\ dtr' = dtr
          /\ opLines' = Append(opLines, << sig, val, TRUE >>)
          /\ reset_at' = IF from = "rn_rts_off" /\ scen = "boot" THEN Len(buffer)
                                                                ELSE reset_at
          /\ cpc' = next
       \/ /\ UNCHANGED << dtr, rts, reset_at >>
          /\ opLines' = Append(opLines, << sig, val, FALSE >>)
          /\ cpc' = "k_raise"
    /\ UNCHANGED << driver, scen, prov, orphans, cpr, idle_end, stale, ConsoleBufVars, ser_open, ser_set, stop, mark, line, needle,
                    start_pos, hay, idle_t, opWrites, obs >>

(* reset_bootloader(pulse_s) *)
CallResetBootloader ==
    /\ driver = "console" /\ cpc = "idle" /\ scen = "reset"
    /\ cpc' = IF ser_set THEN "rb_dtr_on" ELSE "k_raise"
    /\ opLines' = << >>
    /\ UNCHANGED << ConsoleFrame, ser_open, ser_set, stop, LineVars, mark, line,
                    needle, start_pos, hay, idle_t, opWrites, obs >>

RB_DtrOn == SetLine("rb_dtr_on", "DTR", TRUE, "rb_rts_on")

RB_RtsOn == SetLine("rb_rts_on", "RTS", TRUE, "rb_rts_off")

\* variant: boot-select is released while reset is still asserted
RB_RtsOff_ReleasesDtr == SetLine("rb_rts_off", "DTR", FALSE, "rb_dtr_off")

RB_RtsOff == SetLine("rb_rts_off", "RTS", FALSE, "rb_dtr_off")

RB_DtrOff == SetLine("rb_dtr_off", "DTR", FALSE, "k_ret")

(* reset_normal(pulse_s) *)
CallResetNormal ==
    /\ driver = "console" /\ cpc = "idle" /\ scen \in { "reset", "boot" }
    /\ cpc' = IF ser_set THEN "rn_dtr" ELSE "k_raise"
    /\ opLines' = << >>
    /\ UNCHANGED << ConsoleFrame, ser_open, ser_set, stop, LineVars, mark, line,
                    needle, start_pos, hay, idle_t, opWrites, obs >>

RN_Dtr == SetLine("rn_dtr", "DTR", FALSE, "rn_rts_on")

RN_RtsOn == SetLine("rn_rts_on", "RTS", TRUE, "rn_rts_off")

RN_RtsOff == SetLine("rn_rts_off", "RTS", FALSE, "k_ret")

(* close() *)
CallCloseK ==
    /\ driver = "console" /\ cpc = "idle" /\ scen = "reset"
    /\ stop' = TRUE
    /\ cpc' = "kc_join"
    /\ UNCHANGED << ConsoleFrame, ser_open, ser_set, LineVars, mark, CallerLocals >>

\* if the reader is alive: join(timeout=1.0), which ends when the reader has
\* exited or after 1 s; then the branch on self._ser.is_open
KC_Join ==
    /\ driver = "console" /\ cpc = "kc_join"
    /\ \/ rpc \in { "none", "exited" }
       \/ rpc \notin { "none", "exited" }
    /\ cpc' = IF ser_set /\ ser_open THEN "kc_dtr" ELSE "kc_end"
    /\ UNCHANGED << ConsoleFrame, ser_open, ser_set, stop, LineVars, mark,
                    CallerLocals >>

\* try: self._ser.setDTR(False) except: pass
KC_Dtr ==
    /\ driver = "console" /\ cpc = "kc_dtr"
    /\ \/ /\ dtr' = FALSE
          /\ opLines' = Append(opLines, << "DTR", FALSE, TRUE >>)
       \/ /\ dtr' = dtr
          /\ opLines' = Append(opLines, << "DTR", FALSE, FALSE >>)
    /\ cpc' = "kc_rts"
    /\ UNCHANGED << ConsoleFrame, ser_open, ser_set, stop, rts, mark, line, needle,
                    start_pos, hay, idle_t, opWrites, obs >>

\* try: self._ser.setRTS(False) except: pass; then self._ser.close()
KC_Rts ==
    /\ driver = "console" /\ cpc = "kc_rts"
    /\ \/ /\ rts' = FALSE
          /\ opLines' = Append(opLines, << "RTS", FALSE, TRUE >>)
       \/ /\ rts' = rts
          /\ opLines' = Append(opLines, << "RTS", FALSE, FALSE >>)
    /\ ser_open' = FALSE
    /\ cpc' = "kc_end"
    /\ UNCHANGED << ConsoleFrame, ser_set, stop, dtr, mark, line, needle, start_pos,
                    hay, idle_t, opWrites, obs >>

\* self._ser = None; self._reader_thread = None; self._stop_event.clear()
KC_End ==
    /\ driver = "console" /\ cpc = "kc_end"
    /\ ser_set' = FALSE
    /\ stop' = FALSE
    /\ cpc' = "k_ret"
    /\ UNCHANGED << ConsoleFrame, ser_open, LineVars, mark, CallerLocals >>

(* write_line(line) and send_return() *)
CallWriteLine ==
    /\ driver = "console" /\ cpc = "idle" /\ scen = "cmd"
    /\ \E l \in Lines : line' = l
    /\ cpc' = IF ser_set THEN "wl_line" ELSE "k_raise"
    /\ opWrites' = << >>
    /\ UNCHANGED << ConsoleFrame, ser_open, ser_set, stop, LineVars, mark, needle,
                    start_pos, hay, idle_t, opLines, obs >>

CallSendReturn ==
    /\ driver = "console" /\ cpc = "idle" /\ scen = "cmd"
    /\ cpc' = IF ser_set THEN "wl_cr" ELSE "k_raise"
    /\ opWrites' = << >>
    /\ UNCHANGED << ConsoleFrame, ser_open, ser_set, stop, LineVars, mark, line,
                    needle, start_pos, hay, idle_t, opLines, obs >>

\* self.write(line.encode("utf-8")): self._ser.write(data); flush(); an error propagates
WL_Line ==
    /\ driver = "console" /\ cpc = "wl_line"
    /\ \/ /\ opWrites' = Append(opWrites, line)
          /\ cpc' = "wl_cr"
       \/ /\ opWrites' = opWrites
          /\ cpc' = "k_raise"
    /\ UNCHANGED << ConsoleFrame, ser_open, ser_set, stop, LineVars, mark, line,
                    needle, start_pos, hay, idle_t, opLines, obs >>

\* self.send_return(): self.write(b"\r")
WL_Return ==
    /\ driver = "console" /\ cpc = "wl_cr"
    /\ \/ /\ opWrites' = Append(opWrites, << CR >>)
          /\ cpc' = "k_ret"
       \/ /\ opWrites' = opWrites
          /\ cpc' = "k_raise"
    /\ UNCHANGED << ConsoleFrame, ser_open, ser_set, stop, LineVars, mark, line,
                    needle, start_pos, hay, idle_t, opLines, obs >>

(* get_clean_mark() *)
GetCleanMark ==
    /\ driver = "console" /\ cpc = "idle" /\ scen = "cmd" /\ lock = "free"
    /\ mark' = Len(GetCleanText)
    /\ UNCHANGED << ConsoleFrame, ser_open, ser_set, stop, LineVars, cpc,
                    CallerLocals >>

(* wait_for_clean_after(text, start, timeout_s) *)
CallWaitClean ==
    /\ driver = "console" /\ cpc = "idle" /\ scen = "cmd" /\ mark >= 0
    /\ \E n \in CleanNeedles : needle' = n
    /\ start_pos' = mark
    /\ cpc' = "wc_check"
    /\ UNCHANGED << ConsoleFrame, ser_open, ser_set, stop, LineVars, mark, line,
                    hay, idle_t, opWrites, opLines, obs >>

\* while time.time() < deadline
WC_Check ==
    /\ driver = "console" /\ cpc = "wc_check"
    /\ \/ cpc' = "wc_poll"
       \/ cpc' = "wc_false"
    /\ UNCHANGED << ConsoleFrame, ser_open, ser_set, stop, LineVars, mark,
                    CallerLocals >>

\* variant: the poll searches the whole clean text, not from start
WC_Poll_IgnoresStart ==
    /\ driver = "console" /\ cpc = "wc_poll" /\ lock = "free"
    /\ cpc' = IF Contains(GetCleanText, needle) THEN "wc_true" ELSE "wc_check"
    /\ obs' = [obs EXCEPT !.polls = 1]
    /\ UNCHANGED << ConsoleFrame, ser_open, ser_set, stop, LineVars, mark, line,
                    needle, start_pos, hay, idle_t, opWrites, opLines >>

\* clean = self.get_clean_text(); if clean.find(text, start) != -1: return True;
\* else time.sleep(0.02)
WC_Poll ==
    /\ driver = "console" /\ cpc = "wc_poll" /\ lock = "free"
    /\ cpc' = IF FindFrom(GetCleanText, needle, start_pos) THEN "wc_true" ELSE "wc_check"
    /\ obs' = [obs EXCEPT !.polls = 1]
    /\ UNCHANGED << ConsoleFrame, ser_open, ser_set, stop, LineVars, mark, line,
                    needle, start_pos, hay, idle_t, opWrites, opLines >>

WC_Return ==
    /\ driver = "console" /\ cpc \in { "wc_true", "wc_false" }
    /\ cpc' = "idle"
    /\ ClearLocals
    /\ UNCHANGED << ConsoleFrame, ser_open, ser_set, stop, LineVars, mark >>

(* wait_for(text, timeout_s) *)
\* the texts of the boot log the tests wait for after a reset, scaled down
BootTexts == { << 97 >> }

CallWaitFor ==
    /\ driver = "console" /\ cpc = "idle" /\ scen = "boot"
    /\ \E n \in BootTexts : needle' = n
    /\ cpc' = "wf_check"
    /\ UNCHANGED << ConsoleFrame, ser_open, ser_set, stop, LineVars, mark, line,
                    start_pos, hay, idle_t, opWrites, opLines, obs >>

\* while time.time() < deadline
WaitFor_Check ==
    /\ driver = "console" /\ cpc = "wf_check"
    /\ \/ cpc' = "wf_poll"
       \/ cpc' = "wf_false"
    /\ UNCHANGED << ConsoleFrame, ser_open, ser_set, stop, LineVars, mark,
                    CallerLocals >>

\* buf = self.get_buffer(); if target in buf: return True; else time.sleep(0.02)
WaitFor_Poll ==
    /\ driver = "console" /\ cpc = "wf_poll" /\ lock = "free"
    /\ cpc' = IF Contains(buffer, needle) THEN "wf_true" ELSE "wf_check"
    /\ UNCHANGED << ConsoleFrame, ser_open, ser_set, stop, LineVars, mark,
                    CallerLocals >>

WaitFor_Return ==
    /\ driver = "console" /\ cpc \in { "wf_true", "wf_false" }
    /\ cpc' = "idle"
    /\ ClearLocals
    /\ UNCHANGED << ConsoleFrame, ser_open, ser_set, stop, LineVars, mark >>

(* the object after SerialConsole.__init__: no port, no reader, empty buffers.
   The runs are those of the command tests ("cmd", where the port may hold
   earlier bytes), of the open / close / reset calls ("reset") and of the
   session fixture and the OTA test, which reset and wait for the boot log
   ("boot"). *)
InitConsole ==
    /\ driver = "console"
    /\ scen \in { "cmd", "reset", "boot" }
    /\ ser_open = FALSE /\ ser_set = FALSE
    /\ dtr = FALSE /\ rts = FALSE
    /\ replies = 0
    /\ buf = << >> /\ buf_base_index = 0
    /\ stop = FALSE /\ lock = "free" /\ rpc = "none" /\ data = << >>
    /\ orphans = 0
    /\ cpr = CprInit /\ idle_end = -1
    /\ IF scen = "cmd" THEN stale \in BOOLEAN ELSE stale = FALSE
    /\ reset_at = -1
    /\ prov = ProvIdle
    /\ buffer = << >> /\ clean_chunks = << >>
    /\ cpc = "idle"
    /\ line = << >> /\ needle = << >> /\ start_pos = -1 /\ mark = -1
    /\ hay = << >> /\ idle_t = IdleInit
    /\ hist = << >> /\ evicted = 0
    /\ opWrites = << >> /\ opLines = << >>
    /\ obs = ObsInit

NextConsole ==
    \/ K_Read \/ K_Exit \/ K_Extend \/ K_Clean \/ K_OrphanStep \/ K_OrphanExit
    \/ CallOpen \/ OP_Serial \/ OP_Dtr \/ OP_Rts \/ OP_Start \/ K_Return
    \/ CallResetBootloader \/ RB_DtrOn \/ RB_RtsOn \/ RB_RtsOff \/ RB_DtrOff
    \/ CallResetNormal \/ RN_Dtr \/ RN_RtsOn \/ RN_RtsOff
    \/ CallCloseK \/ KC_Join \/ KC_Dtr \/ KC_Rts \/ KC_End
    \/ CallWriteLine \/ CallSendReturn \/ WL_Line \/ WL_Return
    \/ GetCleanMark \/ CallWaitClean \/ WC_Check \/ WC_Poll \/ WC_Return
    \/ CallWaitFor \/ WaitFor_Check \/ WaitFor_Poll \/ WaitFor_Return

(* A state after __init__: the device was silent during construction, and the
   control lines are as the constructor's reset_run left them (each of its
   calls may have failed, in which case the line is as the platform opened it) *)
InitConn ==
    /\ driver = "conn"
    /\ scen \in { "cmd", "reset", "idle", "cpr", "tx" }
    /\ ser_open = TRUE /\ ser_set = TRUE
    /\ IF scen = "reset" THEN dtr \in BOOLEAN /\ rts \in BOOLEAN
       ELSE dtr = FALSE /\ rts = FALSE
    /\ replies = 0
    /\ buf = << >> /\ buf_base_index = 0
    /\ stop = FALSE /\ lock = "free" /\ rpc = "loop" /\ data = << >>
    /\ orphans = 0
    /\ cpr = CprInit /\ idle_end = -1
    /\ stale = FALSE
    /\ reset_at = -1
    /\ prov = ProvIdle
    /\ buffer = << >> /\ clean_chunks = << >>
    /\ cpc = "idle"
    /\ line = << >> /\ needle = << >> /\ start_pos = -1 /\ mark = -1
    /\ hay = << >> /\ idle_t = IdleInit
    /\ hist = << >> /\ evicted = 0
    /\ opWrites = << >> /\ opLines = << >>
    /\ obs = ObsInit

NextConn ==
    \/ R_Read \/ R_Exit \/ R_Cpr \/ R_Extend \/ R_Evict
    \/ CallSendCommand \/ SC_Mark \/ SC_Write \/ SC_Flush \/ SC_WaitEcho \/ SC_Return
    \/ CallResetRun \/ RR_Mark \/ RR_Dtr \/ RR_RtsOn \/ RR_RtsOff \/ RR_Return
    \/ CallAssert \/ AC_Poll \/ AC_Deadline \/ AC_Return
    \/ GetText \/ GT_Return
    \/ CallWaitForIdle \/ WI_Check \/ WI_Sleep \/ WI_Return
    \/ CallClose \/ CL_Join \/ CL_Return

(***************************************************************************)
(*                  program.send_line_and_capture                          *)
(* A sequential function on an open port: no thread, no lock.  Its local   *)
(* buf is the variable buf; idle_t.t is the time since the write in units  *)
(* of the port timeout: a read that returns nothing lasts one unit, a read *)
(* that returns data lasts up to one unit (read(256) returns early only    *)
(* when 256 bytes are there).                                              *)
(***************************************************************************)
CapFrame == << driver, scen, prov, orphans, idle_end, reset_at, stale, ser_open, ser_set, dtr, rts, buf_base_index,
               stop, lock, rpc, buffer, clean_chunks, needle, start_pos, mark,
               hist, evicted, opLines, obs >>

CallCapture ==
    /\ driver = "capture" /\ cpc = "idle"
    /\ \E l \in Lines : line' = l
    /\ cpc' = "cap_write"
    /\ UNCHANGED << CapFrame, opWrites, data, replies, cpr, buf, hay, idle_t >>

\* try: ser.write((line + "\r\n").encode()) except: pass; start = last_data = now;
\* buf = bytearray()
Cap_Write ==
    /\ driver = "capture" /\ cpc = "cap_write"
    /\ \/ opWrites' = Append(opWrites, line \o CRLF)
       \/ opWrites' = opWrites
    /\ buf' = << >>
    /\ idle_t' = IdleInit
    /\ cpc' = "cap_read"
    /\ UNCHANGED << CapFrame, line, data, replies, cpr, hay >>

\* data = ser.read(256); a chunk, or nothing: then break when idle for
\* idle_threshold_s or when max_wait_s have passed since the start, else sleep;
\* after the loop: return _sanitize_terminal_output(buf)
Cap_Read ==
    /\ driver = "capture" /\ cpc = "cap_read"
    /\ \/ /\ \E c \in CprChunks :
                /\ Len(cpr.stream) + Len(c) <= MaxStream
                /\ data' = c
                /\ cpr' = [cpr EXCEPT !.stream = @ \o c]
          /\ replies' = 0
          /\ cpc' = "cap_data"
          /\ \E d \in { 0, 1 } : idle_t' = [idle_t EXCEPT !.t = @ + d]
          /\ hay' = hay
       \/ /\ LET now == idle_t.t + 1
             IN  /\ idle_t' = [idle_t EXCEPT !.t = now]
                 /\ IF now - idle_t.last >= CapIdleTicks \/ now >= CapMaxTicks
                    THEN /\ cpc' = "cap_ret"
                         /\ hay' = Sanitize(Decode(buf))
                    ELSE /\ cpc' = "cap_read"
                         /\ hay' = hay
          /\ UNCHANGED << data, replies, cpr >>
    /\ UNCHANGED << CapFrame, line, opWrites, buf >>

\* if b"\x1b[6n" in data: write the reply (errors swallowed), strip the query;
\* buf.extend(data); last_data = now
Cap_Data ==
    /\ driver = "capture" /\ cpc = "cap_data"
    /\ IF Contains(data, CPR_QUERY)
       THEN /\ \/ /\ ser_open
                  /\ replies' = replies + 1
                  /\ cpr' = [cpr EXCEPT !.calls = @ + 1, !.ok = @ + 1]
               \/ /\ replies' = replies
                  /\ cpr' = [cpr EXCEPT !.calls = @ + 1]
            /\ data' = RemoveAll(data, CPR_QUERY)
       ELSE UNCHANGED << replies, data, cpr >>
    /\ buf' = buf \o data'
    /\ idle_t' = [idle_t EXCEPT !.last = idle_t.t]
    /\ cpc' = "cap_read"
    /\ UNCHANGED << CapFrame, line, opWrites, hay >>

Cap_Return ==
    /\ driver = "capture" /\ cpc = "cap_ret"
    /\ cpc' = "idle"
    /\ buf' = << >>
    /\ data' = << >>
    /\ line' = << >> /\ hay' = << >> /\ idle_t' = IdleInit /\ opWrites' = << >>
    /\ UNCHANGED << CapFrame, replies, cpr >>

\* the port as open_console() returns it
InitCapture ==
    /\ driver = "capture"
    /\ scen = "cpr"
    /\ ser_open = TRUE /\ ser_set = TRUE
    /\ dtr = FALSE /\ rts = FALSE
    /\ replies = 0
    /\ buf = << >> /\ buf_base_index = 0
    /\ stop = FALSE /\ lock = "free" /\ rpc = "none" /\ data = << >>
    /\ orphans = 0
    /\ cpr = CprInit /\ idle_end = -1
    /\ stale = FALSE
    /\ reset_at = -1
    /\ prov = ProvIdle
    /\ buffer = << >> /\ clean_chunks = << >>
    /\ cpc = "idle"
    /\ line = << >> /\ needle = << >> /\ start_pos = -1 /\ mark = -1
    /\ hay = << >> /\ idle_t = IdleInit
    /\ hist = << >> /\ evicted = 0
    /\ opWrites = << >> /\ opLines = << >>
    /\ obs = ObsInit

NextCapture ==
    \/ CallCapture \/ Cap_Write \/ Cap_Read \/ Cap_Data \/ Cap_Return

Init == InitConn \/ InitConsole \/ InitCapture

Next == NextConn \/ NextConsole \/ NextCapture

Spec == Init /\ [][Next]_vars

(***************************************************************************)
(*                              properties                                 *)
(***************************************************************************)
\* clean text of everything the SerialConnection reader appended at logical offset >= m
TextSince(m) == Sanitize(Decode(Drop(hist, m)))

\* the step in which assert_contains / assert_matches / wait_match takes a snapshot
ConnPollStep == driver = "conn" /\ cpc = "ac_poll" /\ cpc' \in { "ac_ret", "ac_deadline" }

\* the step in which get_text takes its snapshot
GetTextStep == driver = "conn" /\ cpc = "idle" /\ cpc' = "gt_ret"

\* the control-line calls of a run-mode reset, all successful
RunExpected ==
    << << "DTR", FALSE, TRUE >>, << "RTS", TRUE, TRUE >>, << "RTS", FALSE, TRUE >> >>

\* the control-line calls of a bootloader reset, all successful
BootExpected ==
    << << "DTR", TRUE, TRUE >>, << "RTS", TRUE, TRUE >>, << "RTS", FALSE, TRUE >>,
       << "DTR", FALSE, TRUE >> >>

\* C1: a query scoped to a mark m examines exactly the text of the bytes at
\* logical offset >= max(m, base index), so nothing appended before the mark was
\* taken can satisfy it: assert_contains / assert_matches / wait_match / get_text
\* of SerialConnection, and a True of SerialConsole.wait_for_clean_after, whose
\* match lies at clean-text index >= start.
C1_MarkScopedQueries ==
    [][ /\ (ConnPollStep /\ start_pos >= 0)
            => hay' = TextSince(Max(start_pos, buf_base_index))
        /\ (GetTextStep /\ start_pos' >= 0)
            => hay' = TextSince(Max(start_pos', buf_base_index))
        /\ (driver = "console" /\ cpc = "wc_poll" /\ cpc' = "wc_true")
            => Contains(Drop(hist, start_pos), needle)
      ]_vars

\* C1 witness: the needle lies in the buffer before the mark, the bytes are
\* still retained, and the mark-scoped poll did not match it
C1_Witness ==
    /\ driver = "conn" /\ cpc = "ac_deadline"
    /\ start_pos > 0 /\ buf_base_index = 0
    /\ Contains(Sanitize(Decode(SubSeq(hist, 1, start_pos))), needle)
    /\ ~Contains(hay, needle)

\* C2 (as claimed): send_command's echo wait ends with "echo seen" only when the
\* echoed line occurs in the text at logical offset >= the mark of that call.
C2_EchoOnlyAfterMark ==
    [][ (driver = "conn" /\ cpc = "sc_echo" /\ cpc' = "sc_ret" /\ obs'.echo = "seen")
            => Contains(TextSince(start_pos), line \o << LF >>)
      ]_vars

\* C3: outside the reader's critical section len(_buf) <= buffer_limit_bytes,
\* and what is retained is the newest bytes (a suffix of everything appended).
C3_BufferBounded ==
    driver = "conn" =>
        /\ lock # "reader" => Len(buf) <= BufLimit
        /\ Len(buf) <= Len(hist)
        /\ buf = Drop(hist, Len(hist) - Len(buf))

\* C3 witness: a single chunk larger than the limit has been appended and trimmed
C3_Witness ==
    /\ driver = "conn" /\ lock = "free" /\ rpc = "loop"
    /\ Len(data) > BufLimit /\ Len(buf) = BufLimit /\ evicted > 0

\* C4: len(_buf) + evicted = appended, _buf_base_index = evicted; the base index
\* never decreases and an eviction advances it by the number of bytes dropped.
C4_BaseIndexAccounting ==
    /\ [](driver = "conn" =>
            /\ Len(buf) + evicted = Len(hist)
            /\ buf_base_index = evicted)
    /\ [][ /\ buf_base_index' >= buf_base_index
           /\ (driver = "conn" /\ rpc = "evict")
                => buf_base_index' - buf_base_index = Len(buf) - Len(buf')
         ]_vars

\* C4 witness: evictions have dropped several bytes and the buffer is full
C4_Witness ==
    /\ driver = "conn" /\ lock = "free"
    /\ evicted >= 2 /\ Len(buf) = BufLimit /\ Len(hist) = evicted + BufLimit

\* C5: a query whose mark lies before the base index is evaluated from the
\* current buffer start: it sees the text of the whole retained buffer.
C5_EvictedMarkClamped ==
    [][ /\ (ConnPollStep /\ start_pos >= 0 /\ start_pos < buf_base_index)
            => hay' = Sanitize(Decode(buf))
        /\ (GetTextStep /\ start_pos' >= 0 /\ start_pos' < buf_base_index)
            => hay' = Sanitize(Decode(buf))
      ]_vars

\* C5 witness: the buffer is full, the base index has passed the mark, and the
\* query saw exactly the retained bytes
C5_Witness ==
    /\ driver = "conn" /\ cpc = "gt_ret"
    /\ start_pos >= 0 /\ start_pos < buf_base_index
    /\ Len(buf) = BufLimit /\ hay = Sanitize(Decode(buf)) /\ Len(hay) = BufLimit

\* C6 (as claimed): after reset_run returned its mark, a poll of
\* assert_matches(banner, start_pos=mark) succeeds whenever the banner has been
\* received at an offset >= the mark: no byte after the pulse is lost.
C6_BannerNeverMissed ==
    [][ (/\ ConnPollStep /\ scen = "reset" /\ start_pos >= 0
         /\ Contains(TextSince(start_pos), needle))
            => cpc' = "ac_ret"
      ]_vars

\* C6 (amended): reset_run takes its mark before any control-line call, so the
\* mark is <= the logical end at the pulse and every later byte has an offset
\* >= the mark; a poll scoped to the mark succeeds whenever the banner has been
\* received since the mark and no byte at an offset >= the mark was evicted.
C6_ResetMarkBeforePulse ==
    /\ [](driver = "conn" /\ cpc \in { "rr_rts_off", "rr_ret" } /\ obs.pulseEnd >= 0
            => start_pos <= obs.pulseEnd)
    /\ [][ /\ (driver = "conn" /\ cpc = "rr_mark" /\ cpc' = "rr_dtr")
                => (start_pos' = Len(hist) /\ opLines' = << >>)
           /\ (driver = "conn" /\ cpc = "rr_ret" /\ cpc' = "idle" /\ obs.pulseEnd >= 0)
                => mark' <= obs.pulseEnd
           /\ (/\ ConnPollStep /\ scen = "reset" /\ start_pos >= 0
               /\ buf_base_index <= start_pos
               /\ Contains(TextSince(start_pos), needle))
                => cpc' = "ac_ret"
         ]_vars

\* C6 witness: the banner is the first byte after reset_run's mark and the
\* assertion scoped to that mark has found it
C6_Witness ==
    /\ driver = "conn" /\ scen = "reset" /\ cpc = "ac_ret"
    /\ start_pos >= 0 /\ start_pos = mark /\ needle = BANNER
    /\ Len(hist) > start_pos /\ hist[start_pos + 1] = BANNER[1]

\* C7 (as claimed): a command reaches the transport in exactly one write call
\* that carries the line followed by the terminator (send_command, write_line).
C7_OneWritePerCommand ==
    /\ (driver = "conn" /\ cpc = "sc_ret" /\ opWrites # << >>)
            => opWrites = << line \o CRLF >>
    /\ (driver = "console" /\ cpc = "k_ret" /\ line # << >>)
            => opWrites = << line \o << CR >> >>

\* C8: send_command never raises (a failed write is swallowed, a missing echo
\* ends the wait), and what it returns is the logical end captured by its first
\* statement, before anything was written.
C8_SendCommandReturnsMark ==
    /\ [](driver = "conn" => cpc # "sc_raise")
    /\ [][ driver = "conn" =>
             /\ (cpc = "sc_mark" /\ cpc' = "sc_write")
                  => (start_pos' = Len(hist) /\ opWrites' = << >>)
             /\ (cpc \in { "sc_write", "sc_flush" } /\ cpc' # cpc)
                  => (cpc' \in { "sc_flush", "sc_echo" } /\ start_pos' = start_pos)
             /\ cpc = "sc_echo"
                  => (cpc' \in { "sc_echo", "sc_ret" } /\ start_pos' = start_pos)
             /\ (cpc = "sc_ret" /\ cpc' # cpc)
                  => (cpc' = "idle" /\ mark' = start_pos)
         ]_vars

\* C8 witness: the write failed, no echo was seen, bytes arrived meanwhile, and
\* the call is about to return the mark it captured first
C8_Witness ==
    /\ driver = "conn" /\ cpc = "sc_ret"
    /\ opWrites = << >> /\ obs.echo = "timeout" /\ start_pos < Len(hist)

\* C9: reset_bootloader calls DTR on, RTS on, RTS off, DTR off in this order;
\* from the moment it has asserted boot-select, boot-select is asserted whenever
\* reset is, and it is still asserted when reset has just been released.
C9_BootloaderOrder ==
    driver = "console" =>
        /\ cpc = "rb_dtr_on" => opLines = << >>
        /\ cpc = "rb_rts_on" => (opLines = SubSeq(BootExpected, 1, 1) /\ dtr)
        /\ cpc = "rb_rts_off" => (opLines = SubSeq(BootExpected, 1, 2) /\ dtr /\ rts)
        /\ cpc = "rb_dtr_off" => (opLines = SubSeq(BootExpected, 1, 3) /\ dtr /\ ~rts)
        /\ (cpc = "k_ret" /\ opLines # << >> /\ opLines[1] = BootExpected[1])
             => (opLines = BootExpected /\ ~dtr /\ ~rts)
        /\ (cpc = "k_raise" /\ opLines # << >> /\ opLines[1] = BootExpected[1])
             => (rts => dtr)

\* C9 witness: reset has just been released with boot-select still asserted
C9_Witness ==
    /\ driver = "console" /\ cpc = "rb_dtr_off"
    /\ dtr /\ ~rts /\ opLines = SubSeq(BootExpected, 1, 3)

\* the order of a run-mode reset in both drivers: DTR off, RTS on, RTS off;
\* boot-select is deasserted during the pulse; reset is deasserted at the end
\* when the three calls succeeded
RunResetOrder ==
    /\ driver = "conn" =>
        /\ cpc = "rr_rts_on" => (opLines = SubSeq(RunExpected, 1, 1) /\ ~dtr)
        /\ cpc = "rr_rts_off" => (opLines = SubSeq(RunExpected, 1, 2) /\ ~dtr /\ rts)
        /\ (cpc = "rr_ret" /\ Len(opLines) = 3 /\ opLines[3][3])
             => (opLines = RunExpected /\ ~dtr /\ ~rts)
    /\ driver = "console" =>
        /\ cpc = "rn_rts_on" => (opLines = SubSeq(RunExpected, 1, 1) /\ ~dtr)
        /\ cpc = "rn_rts_off" => (opLines = SubSeq(RunExpected, 1, 2) /\ ~dtr /\ rts)
        /\ (cpc = "k_ret" /\ Len(opLines) = 3)
             => (opLines = RunExpected /\ ~dtr /\ ~rts)

\* C10 (as claimed): the run-mode reset of either driver follows the order above
\* and returns a mark taken before the pulse.
C10_RunResetReturnsMark ==
    /\ []RunResetOrder
    /\ [][ /\ (driver = "conn" /\ cpc = "rr_ret" /\ cpc' = "idle" /\ opLines = RunExpected)
                => (mark' >= 0 /\ mark' <= obs.pulseEnd)
           /\ (driver = "console" /\ cpc = "k_ret" /\ cpc' = "idle" /\ opLines = RunExpected)
                => (mark' >= 0 /\ mark' <= Len(hist))
         ]_vars

\* C11 (as claimed): close() deasserts DTR and RTS before it closes the line, so
\* when close() has closed the port neither line is asserted; for SerialConsole
\* this is stated for the case that its two deassert calls succeeded.
C11_CloseDeassertsLines ==
    /\ (driver = "conn" /\ cpc = "cl_ret") => (~dtr /\ ~rts)
    /\ (driver = "console" /\ cpc = "kc_end" /\ Len(opLines) = 2
            /\ opLines[1][3] /\ opLines[2][3])
            => (~dtr /\ ~rts /\ ~ser_open)

\* C12 (as claimed): a control-line call that fails inside reset_run,
\* reset_normal or reset_bootloader never makes the operation raise.
C12_ResetNeverRaises ==
    [][ /\ (driver = "conn" /\ cpc \in { "rr_dtr", "rr_rts_on", "rr_rts_off" })
            => cpc' \in { cpc, "rr_rts_on", "rr_rts_off", "rr_ret" }
        /\ (driver = "console"
            /\ cpc \in { "rb_dtr_on", "rb_rts_on", "rb_rts_off", "rb_dtr_off",
                         "rn_dtr", "rn_rts_on", "rn_rts_off" })
            => cpc' # "k_raise"
      ]_vars

\* reader threads alive for this object
LiveReaders == (IF rpc \in { "none", "exited" } THEN 0 ELSE 1) + orphans

\* C13 (as claimed, in its weaker half): while a connection is open there is
\* never more than one live reader thread for it, after any sequence of
\* open() / close() calls.
C13_AtMostOneReader ==
    (ser_set /\ ser_open) => LiveReaders <= 1

\* the step in which the reader / the capture loop handles the chunk it has read
CprStep ==
    \/ driver = "conn" /\ rpc = "got" /\ rpc' = "lock"
    \/ driver = "capture" /\ cpc = "cap_data" /\ cpc' = "cap_read"

\* one query inside another: deleting the inner one joins the outer one
NestedQuery(d) ==
    \E k \in 1..3 :
        Contains(d, SubSeq(CPR_QUERY, 1, k) \o CPR_QUERY \o SubSeq(CPR_QUERY, k + 1, 4))

\* occurrences of the query in a byte stream
RECURSIVE CountQueries(_)
CountQueries(s) ==
    IF Len(s) < Len(CPR_QUERY) THEN 0
    ELSE IF IsPrefix(CPR_QUERY, s)
         THEN 1 + CountQueries(Drop(s, Len(CPR_QUERY)))
         ELSE CountQueries(Drop(s, 1))

C15_EveryQueryAnswered ==
    (driver = "conn" /\ rpc = "loop") => cpr.calls = CountQueries(cpr.stream)

InWaitForIdle == driver = "conn" /\ cpc \in { "wi_check", "wi_sleep", "wi_ret", "wi_raise" }

\* C18 (as claimed): wait_for_idle returns normally only if the reader appended
\* nothing during the last silence_s before the return.
C18_ReturnMeansSilence ==
    (driver = "conn" /\ cpc = "wi_ret") => idle_t.app < idle_t.t - SilenceTicks

\* C19 (as claimed): wait_for_idle raises only once timeout_s has elapsed, does
\* not poll after the deadline, and never returns normally when the console has
\* not been silent: a normal return needs at least one sleep of the call during
\* which nothing was appended.
C19_NoisyConsoleRaises ==
    driver = "conn" =>
        /\ cpc = "wi_raise" => idle_t.t >= TimeoutTicks
        /\ cpc = "wi_sleep" => idle_t.t < TimeoutTicks
        /\ cpc = "wi_ret" => idle_t.still > 0

\* C20: once a call of wait_for_idle has returned normally and the reader has
\* appended nothing since, the next call does not raise: it sees no growth and
\* returns after silence_s.
C20_IdleIdempotent ==
    (InWaitForIdle /\ idle_end >= 0 /\ idle_end = Len(hist)) =>
        /\ cpc # "wi_raise"
        /\ idle_t.last = 0
        /\ idle_t.t <= SilenceTicks + 1
        /\ cpc = "wi_ret" => idle_t.t = SilenceTicks + 1

\* C20 witness: a second call returns normally on a transcript that is not
\* empty and has not grown since the first call returned
C20_Witness ==
    /\ driver = "conn" /\ cpc = "wi_ret"
    /\ idle_end > 0 /\ idle_end = Len(hist) /\ idle_t.app = -1

\* a step in which _wait_echo takes a snapshot and searches it (a step of the
\* caller, so the reader stays where it is, that is not the timeout)
EchoPollStep ==
    /\ driver = "conn" /\ cpc = "sc_echo"
    /\ rpc' = rpc /\ obs'.echo # "timeout"

\* C21: whether the echo is seen depends only on the bytes received, not on the
\* chunks they came in: a poll of the echo wait reports the echo exactly when
\* line + "\n" occurs in the text of the retained bytes; and one call reports
\* at most one outcome and leaves the echo wait exactly once.
C21_EchoOncePerCall ==
    /\ [](driver = "conn" =>
            /\ cpc \in { "sc_mark", "sc_write", "sc_flush", "sc_echo" } => obs.echo = "none"
            /\ cpc = "sc_ret" => obs.echo \in { "seen", "timeout" })
    /\ [][ /\ EchoPollStep
                => (obs'.echo = "seen"
                      <=> Contains(Sanitize(Decode(Drop(hist, buf_base_index))),
                                   line \o << LF >>))
           /\ (driver = "conn" /\ cpc = "sc_echo" /\ cpc' # cpc)
                => (cpc' = "sc_ret" /\ obs'.echo # "none")
           /\ (driver = "conn" /\ cpc = "sc_ret")
                => (cpc' \in { "sc_ret", "idle" } /\ (cpc' = cpc => obs'.echo = obs.echo))
         ]_vars

\* C21 witness: the echo arrived after the mark in two chunks, "a" and then
\* "\n", and the echo wait has seen it
C21_Witness ==
    /\ driver = "conn" /\ cpc = "sc_ret" /\ obs.echo = "seen"
    /\ data = << LF >> /\ rpc = "loop"
    /\ start_pos >= 0 /\ Drop(hist, start_pos) = line \o << LF >>

\* C22 (as claimed): once the reader has stopped, a call of send_command,
\* assert_contains / assert_matches / wait_match, wait_for_idle, write_line or
\* wait_for_clean_after does not enter its normal course (mark, write, poll):
\* it fails at once with a connection-closed error.
C22_StoppedConnectionRefuses ==
    [][ (rpc = "exited" /\ cpc = "idle")
            => cpc' \notin { "sc_mark", "ac_poll", "wi_check", "wl_line", "wc_check" }
      ]_vars

\* C23 (as claimed): send_line_and_capture goes on reading only while the idle
\* threshold has not passed without data and the maximum wait has not elapsed
\* since the write; otherwise it has returned.
C23_CaptureStopsInTime ==
    (driver = "capture" /\ cpc = "cap_read") =>
        /\ idle_t.t - idle_t.last < CapIdleTicks
        /\ idle_t.t < CapMaxTicks

\* C24 (as claimed): once close() has returned the transport is not reopened
\* and no reader is started (a reader that outlived the join may still finish the
\* chunk it holds); and the echo wait of send_command is left only
\* towards the return of the call.
C24_ClosedIsTerminal ==
    [][ /\ (driver = "console" /\ ~ser_set /\ rpc # "none")
            => (~ser_set' /\ ~ser_open' /\ orphans' <= orphans)
        /\ (driver = "conn" /\ ~ser_open /\ cpc # "cl_ret")
            => (~ser_open' /\ rpc' \in { rpc, "got", "lock", "evict", "loop", "exited" })
        /\ (driver = "conn" /\ cpc = "sc_echo") => cpc' \in { "sc_echo", "sc_ret" }
      ]_vars

\* C25 (as claimed): when SerialConnection has been constructed, and when
\* SerialConsole.open returns, nothing that arrived before the open is left in
\* the receive queue and DTR and RTS are both not asserted.
C25_OpenLeavesCleanLine ==
    /\ (driver = "conn" => (~stale /\ ~dtr /\ ~rts))
    /\ [][ (driver = "console" /\ cpc = "op_start" /\ cpc' = "k_ret")
              => (~stale' /\ ~dtr' /\ ~rts') ]_vars

\* C26 (as claimed): the raw byte buffer of SerialConsole never holds more than
\* the configured limit, however many bytes the reader has appended.
C26_ConsoleBufferBounded ==
    driver = "console" => Len(buffer) <= BufLimit

\* C27 (as claimed): once reset_normal has released the reset, wait_for(text)
\* answers True only if text occurs in what the raw buffer received after that.
C27_WaitForSeesNewBoot ==
    [][ (driver = "console" /\ cpc = "wf_poll" /\ cpc' = "wf_true" /\ reset_at >= 0)
            => Contains(Drop(buffer, reset_at), needle) ]_vars

\* C28: wait_for_clean_after(text, start, timeout) never raises; a poll answers
\* True exactly when text occurs in the clean text at an index >= start, and
\* False is returned only by the deadline test, which with timeout 0 comes
\* before any poll.
C28_WaitCleanContract ==
    [][ (driver = "console" /\ cpc \in { "wc_check", "wc_poll" })
          => /\ cpc' \in { "wc_check", "wc_poll", "wc_true", "wc_false" }
             /\ (cpc = "wc_poll" /\ cpc' # cpc)
                   => /\ cpc' \in { "wc_true", "wc_check" }
                      /\ cpc' = "wc_true" <=> FindFrom(GetCleanText, needle, start_pos)
             /\ (cpc = "wc_check" /\ cpc' # cpc) => cpc' \in { "wc_poll", "wc_false" }
      ]_vars

\* a call that answered True for text that also occurs before start
C28_Witness ==
    /\ driver = "console" /\ cpc = "wc_true" /\ obs.polls = 1
    /\ start_pos >= 1
    /\ Contains(SubSeq(GetCleanText, 1, start_pos), needle)
    /\ FindFrom(GetCleanText, needle, start_pos)

\* t holds a complete CSI sequence: ESC [ parameters intermediates final
HasCsi(t) == \E i \in 1..Len(t) : CsiEnd(Drop(t, i - 1)) # 0

\* t holds a complete OSC sequence: ESC ] ... ended by BEL or by ESC \
HasOsc(t) ==
    \E i \in 1..Len(t) : \E j \in (i + 2)..Len(t) :
        /\ t[i] = ESC /\ t[i + 1] = 93
        /\ \/ t[j] = BEL
           \/ (t[j] = ESC /\ j + 1 <= Len(t) /\ t[j + 1] = 92)

\* C29 (as claimed): what a single chunk contributes to the clean text holds no
\* complete CSI and no complete OSC sequence; stated on the clean chunks of
\* SerialConsole, each of which is the cleaning of one received chunk.
C29_CleanTextHasNoEscapes ==
    driver = "console" =>
        \A i \in 1..Len(clean_chunks) :
            ~HasCsi(clean_chunks[i]) /\ ~HasOsc(clean_chunks[i])

\* C30 (as claimed): whenever the buffer lock of SerialConsole is free, no chunk
\* is in the raw buffer while its cleaned text is still missing from the clean
\* text.
C30_BuffersUpdatedTogether ==
    (driver = "console" /\ lock = "free" /\ rpc = "raw")
        => CleanAnsi(Decode(data)) = << >>

\* a step in which a wait / assert / idle primitive reads the shared buffer:
\* a snapshot of assert_contains or of the echo wait, a length sample of
\* wait_for_idle before or after its sleep, a poll of wait_for or of
\* wait_for_clean_after
BufferReadStep ==
    \/ ConnPollStep
    \/ EchoPollStep
    \/ driver = "conn" /\ cpc = "wi_check" /\ cpc' = "wi_sleep"
    \/ driver = "conn" /\ cpc = "wi_sleep" /\ cpc' # cpc
    \/ driver = "console" /\ cpc = "wc_poll" /\ cpc' # cpc
    \/ driver = "console" /\ cpc = "wf_poll" /\ cpc' # cpc

\* C31 (as claimed): every read of the shared buffer by a wait / assert / idle
\* primitive is made under the buffer lock, so never while the reader holds it
\* in the middle of an update.
C31_PollsReadUnderLock ==
    [][ BufferReadStep => lock = "free" ]_vars

\* C32 (as claimed): when the reader loop ends, by the stop signal or by a
\* failed read, the stopped flag is set from then on.
C32_ReaderExitSetsStopped ==
    [][ (rpc \notin { "none", "exited" } /\ rpc' = "exited") => stop' ]_vars

(***************************************************************************)
(*                    shutdown: close() and the reader                     *)
(***************************************************************************)
\* The runs of the open / close calls alone: the reader threads, open() and
\* close() of SerialConsole, close() of SerialConnection.
CloseInit == (InitConn \/ InitConsole) /\ scen = "reset"

CloseNext ==
    \/ R_Read \/ R_Exit \/ R_Cpr \/ R_Extend \/ R_Evict
    \/ CallClose \/ CL_Join \/ CL_Return
    \/ K_Read \/ K_Exit \/ K_Extend \/ K_Clean \/ K_OrphanStep \/ K_OrphanExit
    \/ CallOpen \/ OP_Serial \/ OP_Dtr \/ OP_Rts \/ OP_Start \/ K_Return
    \/ CallCloseK \/ KC_Join \/ KC_Dtr \/ KC_Rts \/ KC_End

\* A reader thread that is not blocked takes its next step: its read has a
\* timeout, after which the loop tests the stop flag again, and a read of a
\* port that is closed or gone raises, which ends the loop; the lock is never
\* held across a sleep.  That a read of a healthy port fails is never forced.
ReaderFairness ==
    /\ WF_vars(R_Exit /\ (stop \/ ~ser_open))
    /\ WF_vars(R_Cpr) /\ WF_vars(R_Extend) /\ WF_vars(R_Evict)
    /\ WF_vars(K_Exit /\ (stop \/ ~ser_set \/ ~ser_open))
    /\ WF_vars(K_OrphanExit /\ (stop \/ ~ser_set \/ ~ser_open))
    /\ WF_vars(K_Extend) /\ WF_vars(K_Clean)

\* A caller inside close() runs on: the join has a timeout and nothing else in
\* close() waits.  Whether the caller makes another call is never forced.
CloseFairness ==
    /\ WF_vars(CL_Join) /\ WF_vars(CL_Return)
    /\ WF_vars(KC_Join) /\ WF_vars(KC_Dtr) /\ WF_vars(KC_Rts) /\ WF_vars(KC_End)
    /\ WF_vars(K_Return)

CloseSpec == CloseInit /\ [][CloseNext]_vars /\ ReaderFairness /\ CloseFairness

\* the caller is inside SerialConsole.open()
InOpen == cpc \in { "op_serial", "op_dtr", "op_rts", "op_start" }

\* C33: close() always returns, whatever the reader does; and once close() has
\* been called every reader thread of the object ends, unless the caller opens
\* the port again.
C33_CloseTerminates ==
    /\ (driver = "conn" /\ cpc = "cl_join") ~> (cpc = "idle")
    /\ (driver = "conn" /\ cpc = "cl_join") ~> (rpc = "exited")
    /\ (driver = "console" /\ cpc = "kc_join") ~> (cpc = "idle")
    /\ (driver = "console" /\ cpc = "kc_join") ~> (LiveReaders = 0 \/ InOpen)

\* close() of SerialConsole has returned after a join that timed out: the stop
\* event is clear again and the reader it left behind still holds a chunk
C33_Witness ==
    /\ driver = "console" /\ cpc = "idle" /\ ~ser_set /\ ~stop
    /\ rpc = "got" /\ data # << >>

\* a step of the caller's thread in SerialConnection or SerialConsole: its
\* position, its mark or what it observed changes (a reader step changes none)
CallerStep ==
    /\ driver \in { "conn", "console" }
    /\ cpc' # cpc \/ mark' # mark \/ obs' # obs \/ hay' # hay

\* C34: no operation of the caller writes the buffer store: send_command, the
\* resets, get_text, the marks, the assert / wait / idle primitives, open and
\* close leave the raw buffer, its base index and the clean text as they are.
C34_ReaderIsOnlyWriter ==
    [][ CallerStep => /\ buf' = buf /\ buf_base_index' = buf_base_index
                      /\ buffer' = buffer /\ clean_chunks' = clean_chunks
                      /\ evicted' = evicted ]_vars

\* send_command has run to its return on a connection whose buffer holds data
\* and has evicted some
C34_Witness ==
    /\ driver = "conn" /\ cpc = "sc_ret" /\ opWrites # << >>
    /\ buf # << >> /\ buf_base_index > 0

\* C35: the marks that send_command and reset_run return on one connection never
\* decrease, eviction or not, and no mark, returned or just taken, is ever
\* beyond the logical end of the buffer.
C35_MarksMonotonic ==
    /\ [](driver = "conn" => (mark <= LogicalEnd /\ start_pos <= LogicalEnd))
    /\ [][ driver = "conn" => (mark' >= mark /\ LogicalEnd' >= LogicalEnd) ]_vars
    /\ [][ (driver = "conn" /\ cpc \in { "sc_ret", "rr_ret" } /\ cpc' = "idle")
              => (mark' = start_pos /\ start_pos >= mark) ]_vars

\* send_command is about to return a mark larger than the one returned before,
\* which eviction has meanwhile passed
C35_Witness ==
    /\ driver = "conn" /\ cpc = "sc_ret"
    /\ mark >= 0 /\ buf_base_index > mark /\ start_pos > mark

\* C36 (as claimed): when the reader has appended between the length sample of
\* wait_for_idle and its test after the sleep, the test counts it as new data
\* (last_data_time becomes now), also when the buffer is at its limit.
C36_IdleCountsEveryAppend ==
    [][ (/\ driver = "conn" /\ cpc = "wi_sleep" /\ cpc' # cpc
         /\ LogicalEnd > idle_t.end)
            => idle_t'.last = idle_t'.t ]_vars

AllLineCallsOk == \A i \in 1..Len(opLines) : opLines[i][3]

ReplyWriteStep ==
    /\ driver = "conn" /\ rpc = "got" /\ rpc' = "lock"
    /\ cpr'.calls > cpr.calls

\* C38 (as claimed): the reader never writes its cursor-position reply while a
\* command write of send_command is in progress, that is between the write call
\* and the return of its flush.
C38_WritesExclusive ==
    [][ ReplyWriteStep => cpc # "sc_flush" ]_vars

(***************************************************************************)
(*                     provision.apply_config_file                         *)
(***************************************************************************)
(* prov.file is the loaded file, prov.ns and prov.key the positions of the two
   loops, prov.phase whether the running command is an nvs_namespace ("ns") or
   an nvs_set ("key"). prov.sent lists the commands whose line was written, each
   with the clean mark taken before it; prov.failed holds the namespaces and
   prov.unacked the keys whose wait returned False. *)
ProvFrame == << driver, scen, orphans, cpr, idle_end, reset_at, stale, ConsoleBufVars,
                ser_open, ser_set, stop, LineVars, hay, idle_t, opLines, obs >>

\* the namespace and the key the loops are at
ProvNs == prov.file[prov.ns]
ProvKey == ProvNs.keys[prov.key]

\* for namespace, kvs in data.items(): a value that is not an object is skipped;
\* otherwise mark_ns = console.get_clean_mark()
PV_Namespace ==
    /\ driver = "console" /\ cpc = "pv_ns" /\ lock = "free"
    /\ IF prov.ns > Len(prov.file)
       THEN /\ cpc' = "pv_done"
            /\ UNCHANGED << prov, mark, line >>
       ELSE IF ~ ProvNs.obj
       THEN /\ prov' = [prov EXCEPT !.ns = @ + 1]
            /\ UNCHANGED << cpc, mark, line >>
       ELSE /\ mark' = Len(GetCleanText)
            /\ line' = NsCommand(ProvNs.name)
            /\ prov' = [prov EXCEPT !.phase = "ns"]
            /\ cpc' = "pv_write"
    /\ UNCHANGED << ProvFrame, needle, start_pos, opWrites >>

\* for key, value in kvs.items(): mark_set = console.get_clean_mark()
PV_Key ==
    /\ driver = "console" /\ cpc = "pv_key" /\ lock = "free"
    /\ IF prov.key > Len(ProvNs.keys)
       THEN /\ prov' = [prov EXCEPT !.ns = @ + 1, !.key = 0]
            /\ cpc' = "pv_ns"
            /\ UNCHANGED << mark, line >>
       ELSE /\ mark' = Len(GetCleanText)
            /\ line' = SetCommand(ProvKey)
            /\ prov' = [prov EXCEPT !.phase = "key"]
            /\ cpc' = "pv_write"
    /\ UNCHANGED << ProvFrame, needle, start_pos, opWrites >>

\* console.write_line(...): self.write(line.encode("utf-8")) hands the line to
\* the port, or raises, which ends apply_config_file
PV_Write ==
    /\ driver = "console" /\ cpc = "pv_write"
    /\ \/ /\ opWrites' = Append(opWrites, line)
          /\ prov' = [prov EXCEPT !.sent = Append(@,
                         [kind |-> prov.phase, ns |-> ProvNs.name,
                          key |-> IF prov.phase = "key" THEN ProvKey ELSE << >>,
                          mark |-> mark])]
          /\ cpc' = "pv_cr1"
       \/ /\ UNCHANGED << opWrites, prov >>
          /\ cpc' = "pv_raise"
    /\ UNCHANGED << ProvFrame, mark, line, needle, start_pos >>

\* the send_return() that ends write_line, then console.send_return(); after the
\* second, wait_for_clean_after(<acknowledgement>, mark, timeout_s=5) is called
PV_SendReturn ==
    /\ driver = "console" /\ cpc \in { "pv_cr1", "pv_cr2" }
    /\ \/ /\ opWrites' = Append(opWrites, << CR >>)
          /\ IF cpc = "pv_cr1"
             THEN /\ cpc' = "pv_cr2"
                  /\ UNCHANGED << needle, start_pos >>
             ELSE /\ cpc' = "wc_check"
                  /\ needle' = IF prov.phase = "ns" THEN NsAck(ProvNs.name)
                                                    ELSE KeyAck(ProvKey)
                  /\ start_pos' = mark
       \/ /\ UNCHANGED << opWrites, needle, start_pos >>
          /\ cpc' = "pv_raise"
    /\ UNCHANGED << ProvFrame, prov, mark, line >>

\* variant: a namespace whose acknowledgement timed out is reported, and its
\* keys are sent all the same
PV_NsResult_Continues ==
    /\ driver = "console" /\ scen = "prov" /\ prov.phase = "ns"
    /\ cpc \in { "wc_true", "wc_false" }
    /\ prov' = [prov EXCEPT !.key = 1,
                            !.failed = IF cpc = "wc_false" THEN @ \cup { ProvNs.name } ELSE @]
    /\ cpc' = "pv_key"
    /\ UNCHANGED << ProvFrame, mark, line, needle, start_pos, opWrites >>

\* if not console.wait_for_clean_after(f"Namespace set to '{namespace}'", mark_ns, ...):
\*     print(... "Aborting."); return
PV_NsResult ==
    /\ driver = "console" /\ scen = "prov" /\ prov.phase = "ns"
    /\ cpc \in { "wc_true", "wc_false" }
    /\ IF cpc = "wc_true"
       THEN /\ prov' = [prov EXCEPT !.key = 1]
            /\ cpc' = "pv_key"
       ELSE /\ prov' = [prov EXCEPT !.failed = @ \cup { ProvNs.name }]
            /\ cpc' = "pv_done"
    /\ UNCHANGED << ProvFrame, mark, line, needle, start_pos, opWrites >>

\* if not console.wait_for_clean_after(f"Value stored under key '{key}'", mark_set, ...):
\*     print(...)  # Continue with other keys
PV_KeyResult ==
    /\ driver = "console" /\ scen = "prov" /\ prov.phase = "key"
    /\ cpc \in { "wc_true", "wc_false" }
    /\ prov' = [prov EXCEPT !.key = @ + 1,
                            !.unacked = IF cpc = "wc_false"
                                        THEN @ \cup { << ProvNs.name, ProvKey >> } ELSE @]
    /\ cpc' = "pv_key"
    /\ UNCHANGED << ProvFrame, mark, line, needle, start_pos, opWrites >>

(* apply_config_file is called with an open console whose reader runs: the
   device has printed nothing yet, or the clean text holds what an earlier file
   left, here the acknowledgement of one of its namespaces. *)
InitProv ==
    /\ driver = "console" /\ scen = "prov"
    /\ ser_open = TRUE /\ ser_set = TRUE
    /\ dtr = FALSE /\ rts = FALSE
    /\ replies = 0
    /\ buf = << >> /\ buf_base_index = 0
    /\ stop = FALSE /\ lock = "free" /\ rpc = "loop" /\ data = << >>
    /\ orphans = 0
    /\ cpr = CprInit /\ idle_end = -1
    /\ stale = FALSE
    /\ reset_at = -1
    /\ \E earlier \in { << >>, NsAck(<< 97 >>) } :
          /\ buffer = earlier
          /\ hist = earlier
          /\ clean_chunks = IF earlier = << >> THEN << >> ELSE << earlier >>
    /\ evicted = 0
    /\ cpc = "pv_ns"
    /\ line = << >> /\ needle = << >> /\ start_pos = -1 /\ mark = -1
    /\ hay = << >> /\ idle_t = IdleInit
    /\ opWrites = << >> /\ opLines = << >>
    /\ obs = ObsInit
    /\ \E f \in ProvFiles :
          prov = [file |-> f, ns |-> 1, key |-> 0, phase |-> "ns", sent |-> << >>,
                  failed |-> { }, unacked |-> { }]

NextProv ==
    \/ K_Read \/ K_Exit \/ K_Extend \/ K_Clean
    \/ PV_Namespace \/ PV_Key \/ PV_Write \/ PV_SendReturn
    \/ WC_Check \/ WC_Poll
    \/ PV_NsResult \/ PV_KeyResult

ProvSpec == InitProv /\ [][NextProv]_vars

\* the last nvs_namespace command sent before the i-th command (0: none)
LastNsBefore(i) ==
    LET S == { j \in 1..(i - 1) : prov.sent[j].kind = "ns" }
    IN  IF S = { } THEN 0 ELSE CHOOSE j \in S : \A k \in S : k <= j

\* C39: apply_config_file sends an nvs_set only when the nvs_namespace command
\* sent last before it named that key's namespace and its acknowledgement stands
\* in the clean text at or after the mark taken for it; once the wait for a
\* namespace's acknowledgement returned False, that nvs_namespace command stays
\* the last command sent; and after the wait for a key's acknowledgement
\* returned False the loop goes on to the next key of the namespace.
C39_SetOnlyAfterNamespaceAck ==
    /\ [] ( scen = "prov" =>
              /\ \A i \in 1..Len(prov.sent) :
                    prov.sent[i].kind = "key" =>
                       LET j == LastNsBefore(i)
                       IN  /\ j > 0
                           /\ prov.sent[j].ns = prov.sent[i].ns
                           /\ FindFrom(GetCleanText, NsAck(prov.sent[j].ns),
                                       prov.sent[j].mark)
              /\ \A i \in 1..Len(prov.sent) :
                    (prov.sent[i].kind = "ns" /\ prov.sent[i].ns \in prov.failed)
                       => i = Len(prov.sent) )
    /\ [][ (scen = "prov" /\ prov.phase = "key" /\ cpc = "wc_false" /\ cpc' # cpc)
              => /\ cpc' = "pv_key"
                 /\ prov'.ns = prov.ns
                 /\ prov'.key = prov.key + 1 ]_vars
    /\ [][ (scen = "prov" /\ cpc = "pv_key" /\ cpc' # cpc
               /\ prov.key <= Len(ProvNs.keys))
              => /\ cpc' = "pv_write"
                 /\ line' = SetCommand(ProvKey) ]_vars

\* the first key of a namespace went unacknowledged and the second was sent
C39_Witness ==
    /\ scen = "prov"
    /\ \E i \in 2..Len(prov.sent) :
          /\ prov.sent[i].kind = "key" /\ prov.sent[i - 1].kind = "key"
          /\ << prov.sent[i - 1].ns, prov.sent[i - 1].key >> \in prov.unacked
          /\ << prov.sent[i].ns, prov.sent[i].key >> \notin prov.unacked
    /\ cpc = "pv_done"
    /\ prov.failed # { }

====
